---- MODULE Spec2Model ----
(***************************************************************************)
(* Verification model of the Cerebro text pipeline.                        *)
(*                                                                         *)
(*   scripts/prepare_llamaindex_dataset.py  iter_blocks, build_chunks      *)
(*   scripts/make_chunks_from_docs.py       split_into_chunks              *)
(*                                                                         *)
(* Texts are sequences of one-character strings, so that slicing,          *)
(* stripping and length arithmetic are computed as Python computes them.   *)
(***************************************************************************)
EXTENDS Integers, Sequences, FiniteSets, TLC

(***************************************************************************)
(* Python string primitives                                                *)
(***************************************************************************)

\* the non-breaking space, written as a printable character
Nbsp == "@"

\* str.isspace() on the characters of the modelled alphabet
Whitespace == {" ", "\n", Nbsp}

RECURSIVE LStrip(_)
LStrip(s) ==
    IF s = <<>> THEN <<>>
    ELSE IF s[1] \in Whitespace THEN LStrip(Tail(s))
    ELSE s

RECURSIVE RStrip(_)
RStrip(s) ==
    IF s = <<>> THEN <<>>
    ELSE IF s[Len(s)] \in Whitespace THEN RStrip(SubSeq(s, 1, Len(s) - 1))
    ELSE s

\* str.strip()
Strip(s) == RStrip(LStrip(s))

\* "".join(parts)
RECURSIVE Join(_)
Join(parts) ==
    IF parts = <<>> THEN <<>>
    ELSE Head(parts) \o Join(Tail(parts))

\* s.startswith(p)
StartsWith(s, p) ==
    /\ Len(p) <= Len(s)
    /\ SubSeq(s, 1, Len(p)) = p

\* s.endswith(p)
EndsWith(s, p) ==
    /\ Len(p) <= Len(s)
    /\ SubSeq(s, Len(s) - Len(p) + 1, Len(s)) = p

\* p in s
Occurs(p, s) ==
    \E k \in 0..(Len(s) - Len(p)) : SubSeq(s, k + 1, k + Len(p)) = p

\* The Python slice s[-n:] for n >= 0.  -0 is 0, so s[-0:] is s[0:], the
\* whole string; n >= len(s) clamps to the whole string as well.
NegSlice(s, n) ==
    IF n = 0 \/ n >= Len(s) THEN s
    ELSE SubSeq(s, Len(s) - n + 1, Len(s))

\* str.splitlines(keepends=True), "\n" being the only line boundary of the
\* modelled alphabet
RECURSIVE SplitFrom(_, _, _)
SplitFrom(s, i, line) ==
    IF i > Len(s) THEN (IF line = <<>> THEN <<>> ELSE <<line>>)
    ELSE IF s[i] = "\n" THEN <<Append(line, s[i])>> \o SplitFrom(s, i + 1, <<>>)
    ELSE SplitFrom(s, i + 1, Append(line, s[i]))

SplitLines(s) == SplitFrom(s, 1, <<>>)

(***************************************************************************)
(* HEADING_RE: one to six hashes, then whitespace (one or more), then a    *)
(* greedy any-character group anchored at the end; no MULTILINE and no     *)
(* DOTALL flag, used with re.match.  After k hashes (1 <= k <= 6, the next *)
(* character no hash) it needs w >= 1 whitespace characters and then a run *)
(* without newline that reaches the end of the string or a single final    *)
(* newline.                                                                *)
(***************************************************************************)
RECURSIVE CountHashes(_)
CountHashes(s) ==
    IF s # <<>> /\ s[1] = "#" THEN 1 + CountHashes(Tail(s)) ELSE 0

\* the any-character group and the end anchor match t: no newline in t
\* except a final one
DotStarToEnd(t) ==
    \A k \in 1..Len(t) : t[k] = "\n" => k = Len(t)

HeadingSplits(rest) ==
    { w \in 1..Len(rest) :
        /\ \A k \in 1..w : rest[k] \in Whitespace
        /\ DotStarToEnd(SubSeq(rest, w + 1, Len(rest))) }

HeadingMatches(s) ==
    LET k == CountHashes(s)
    IN  /\ k >= 1
        /\ k <= 6
        /\ HeadingSplits(SubSeq(s, k + 1, Len(s))) # {}

\* m.group(1) has length HeadingLevel(s)
HeadingLevel(s) == CountHashes(s)

\* m.group(2).strip(): the whitespace run is greedy, so group 2 is what follows the longest
\* whitespace run that still lets the rest match, without the final newline
HeadingTitle(s) ==
    LET k    == CountHashes(s)
        rest == SubSeq(s, k + 1, Len(s))
        ws   == HeadingSplits(rest)
        w    == CHOOSE x \in ws : \A y \in ws : y <= x
        t    == SubSeq(rest, w + 1, Len(rest))
        g2   == IF t # <<>> /\ t[Len(t)] = "\n" THEN SubSeq(t, 1, Len(t) - 1) ELSE t
    IN  Strip(g2)

(***************************************************************************)
(* iter_blocks: the generator's local state is a record                    *)
(*   block (the joined lines of the list), offset, block_start, in_code    *)
(* and out, the (text, start offset) pairs yielded so far.                 *)
(***************************************************************************)
\* The fence marker, three backticks.  The backtick character is written "~"
\* in this module: a string literal cannot hold it.
Fence == <<"~", "~", "~">>

\* line.strip().startswith(Fence)
IsFenceLine(line) == StartsWith(Strip(line), Fence)

\* line.strip() == ""
IsBlankLine(line) == Strip(line) = <<>>

\* flush(): yield the block if it is not empty, and empty it
Flush(st) ==
    IF st.block # <<>>
    THEN [st EXCEPT !.out = Append(@, [text |-> st.block, start |-> st.block_start]),
                    !.block = <<>>]
    ELSE st

\* IterLine testing for a blank line before it tests in_code: a blank line
\* inside a fence becomes a block boundary
IterLineBlankFirst(st, line) ==
    IF IsFenceLine(line) THEN
        IF ~st.in_code
        THEN [Flush(st) EXCEPT !.in_code = TRUE,
                               !.block_start = st.offset,
                               !.block = line,
                               !.offset = st.offset + Len(line)]
        ELSE [Flush([st EXCEPT !.in_code = FALSE, !.block = @ \o line])
                  EXCEPT !.offset = st.offset + Len(line)]
    ELSE IF IsBlankLine(line) THEN
        [Flush(st) EXCEPT !.offset = st.offset + Len(line),
                          !.block_start = st.offset + Len(line)]
    ELSE
        [st EXCEPT !.block_start = IF st.block = <<>> THEN st.offset ELSE @,
                   !.block = @ \o line,
                   !.offset = @ + Len(line)]

\* one pass of the while loop, on lines[i]
IterLine(st, line) ==
    IF IsFenceLine(line) THEN
        IF ~st.in_code
        THEN [Flush(st) EXCEPT !.in_code = TRUE,
                               !.block_start = st.offset,
                               !.block = line,
                               !.offset = st.offset + Len(line)]
        ELSE [Flush([st EXCEPT !.in_code = FALSE, !.block = @ \o line])
                  EXCEPT !.offset = st.offset + Len(line)]
    ELSE IF st.in_code THEN
        [st EXCEPT !.block = @ \o line, !.offset = @ + Len(line)]
    ELSE IF IsBlankLine(line) THEN
        [Flush(st) EXCEPT !.offset = st.offset + Len(line),
                          !.block_start = st.offset + Len(line)]
    ELSE IF HeadingMatches(line) THEN
        [Flush([Flush(st) EXCEPT !.block_start = st.offset, !.block = line])
            EXCEPT !.offset = st.offset + Len(line),
                   !.block_start = st.offset + Len(line)]
    ELSE
        [st EXCEPT !.block_start = IF st.block = <<>> THEN st.offset ELSE @,
                   !.block = @ \o line,
                   !.offset = @ + Len(line)]

RECURSIVE IterLoop(_, _, _)
IterLoop(lines, i, st) ==
    IF i > Len(lines) THEN st
    ELSE IterLoop(lines, i + 1, IterLine(st, lines[i]))

\* the list of everything iter_blocks(md_text) yields, final flush included
IterBlocks(md_text) ==
    LET st0 == [block |-> <<>>, offset |-> 0, block_start |-> 0,
                in_code |-> FALSE, out |-> <<>>]
    IN  Flush(IterLoop(SplitLines(md_text), 1, st0)).out

(***************************************************************************)
(* build_chunks                                                            *)
(***************************************************************************)
VARIABLES
    md_text,         \* argument: the Markdown text
    target_chars,    \* argument
    overlap_chars,   \* argument
    blocks,          \* what iter_blocks(md_text) yields, in order
    bi,              \* number of blocks the for loop has consumed
    current,         \* List[str]
    current_len,
    current_offset,
    chunk_idx,
    section_stack,   \* List[(level, title)]
    chunks,          \* List[Chunk]
    pc,              \* "loop" inside the for loop, "done" after return
    open,            \* history of the chunk being filled
    hist             \* history of the emitted chunks, parallel to chunks

\* split_into_chunks
VARIABLES
    text,            \* argument
    max_chars,       \* cfg.max_chars
    overlap,         \* cfg.overlap
    paras,           \* the stripped, non-empty paragraphs
    pi,              \* number of paragraphs the for loop has consumed
    buf,             \* List[str]
    cur,
    yielded,         \* the chunks yielded so far
    spc,             \* "loop" inside the for loop, "done" after the generator ends
    last             \* history: what the latest pass of the loop decided

\* tidy_chunks_inplace
VARIABLES
    backup,          \* argument: not --no-backup
    chunks_path,     \* the file at the chunk path
    bak,             \* the file at the backup name of this run
    tmp_out,         \* the file at the temp name
    in_f,            \* which file is read: "bak" or "chunks"
    total,
    changed,
    tpc,             \* position in the script
    runs,            \* number of times the script was started
    original,        \* history: the chunk file when this run started
    results          \* history: the chunk file after each completed run

bcVars == <<md_text, target_chars, overlap_chars, blocks, bi, current,
            current_len, current_offset, chunk_idx, section_stack, chunks,
            pc, open, hist>>

scVars == <<text, max_chars, overlap, paras, pi, buf, cur, yielded, spc, last>>

\* _TextExtractor and html_to_text
VARIABLES
    html,              \* argument: the HTML text, as tokens
    events,            \* the handler calls feed() makes for it
    epos,              \* number of calls made
    _chunks,
    _in_script_style,
    text_out,          \* what html_to_text returns
    xpc                \* "feed" inside feed(), "done" after the return

\* _FigureHarvester and harvest_figures
VARIABLES
    fig_html,          \* argument: the HTML text, as tokens
    fig_events,        \* the handler calls feed() makes for it
    fig_pos,           \* number of calls made
    in_figure,
    in_figcaption,
    current_src,
    current_caption_chunks,
    items,
    figures,           \* what harvest_figures returns
    fpc                \* "feed" inside feed(), "done" after the return

\* the batch converters: convert_all.py, scripts/convert_all.py and
\* scripts/convert_all_splits.py
VARIABLES
    script,          \* which of the three converters runs
    folders,         \* the number of PDFs list_pdfs finds in each folder
    fold,            \* number of folders the outer loop has taken
    pdf,             \* number of PDFs of that folder the loop has taken
    ok,              \* ok, total_ok
    total_files,     \* convert_all_splits only
    cvpc,            \* "start", "folders", "pdfs", "done"
    summary,         \* the final print: <<>> before it, then <<ok, total>>
    errors,          \* the items of the [ERROR] lines printed so far
    attempted        \* history: the calls of converter.convert, in order

tdVars == <<backup, chunks_path, bak, tmp_out, in_f, total, changed, tpc,
            runs, original, results>>

txVars == <<html, events, epos, _chunks, _in_script_style, text_out, xpc>>

fhVars == <<fig_html, fig_events, fig_pos, in_figure, in_figcaption,
            current_src, current_caption_chunks, items, figures, fpc>>

\* the entry points of the file-processing scripts
VARIABLES
    program,         \* which script runs
    input,           \* "missing", "blank" (it holds no document), "present"
    out_parent,      \* whether the folder of the output file exists
    out_file,        \* "absent", "old", "empty" or "new"
    bak_file,        \* "absent", "older" (an earlier backup) or "old"
    mnpc,            \* "start", "backup", "walk", "aborted", "done"
    at_start         \* history: out_file and bak_file when the script started

mnVars == <<program, input, out_parent, out_file, bak_file, mnpc, at_start>>

\* process_file of make_chunks_from_docs
VARIABLES
    stem,            \* path.stem
    assets_root,     \* argument, "None" for None
    text_chunks,     \* what split_into_chunks(text, cfg) yields, in order
    figs,            \* what harvest_figures(raw) returned
    file_idx,        \* idx
    fout,            \* the records written to out, in order
    pfpc             \* "chunks" and "figures" for the two loops, "done"

pfVars == <<stem, assets_root, text_chunks, figs, file_idx, fout, pfpc>>

cvVars == <<script, folders, fold, pdf, ok, total_files, cvpc, summary,
            errors, attempted>>

vars == <<bcVars, scVars, tdVars, txVars, fhVars, cvVars, mnVars, pfVars>>

\* build_chunks touches nothing of the other programs
BuildFrame == UNCHANGED <<scVars, tdVars, txVars, fhVars, cvVars, mnVars, pfVars>>

\* split_into_chunks touches nothing of the other programs
SplitFrame == UNCHANGED <<bcVars, tdVars, txVars, fhVars, cvVars, mnVars, pfVars>>

\* the tidy pass touches nothing of the other programs
TidyFrame == UNCHANGED <<bcVars, scVars, txVars, fhVars, cvVars, mnVars, pfVars>>

\* html_to_text touches nothing of the other programs
TextFrame == UNCHANGED <<bcVars, scVars, tdVars, fhVars, cvVars, mnVars, pfVars>>

\* harvest_figures touches nothing of the other programs
FigFrame == UNCHANGED <<bcVars, scVars, tdVars, txVars, cvVars, mnVars, pfVars>>

\* a batch converter touches nothing of the other programs
ConvFrame == UNCHANGED <<bcVars, scVars, tdVars, txVars, fhVars, mnVars, pfVars>>

\* an entry point touches nothing of the other programs
MainFrame == UNCHANGED <<bcVars, scVars, tdVars, txVars, fhVars, cvVars, pfVars>>

\* process_file touches nothing of the other programs
FileFrame == UNCHANGED <<bcVars, scVars, tdVars, txVars, fhVars, cvVars,
                         mnVars>>

\* section_path(): the titles of the stack, bottom first
SectionPath(stack) == [k \in 1..Len(stack) |-> stack[k].title]

\* PopStack popping only the deeper entries (> for >=): a sibling stays
RECURSIVE PopStackDeeperOnly(_, _)
PopStackDeeperOnly(stack, level) ==
    IF stack # <<>> /\ stack[Len(stack)].level > level
    THEN PopStackDeeperOnly(SubSeq(stack, 1, Len(stack) - 1), level)
    ELSE stack

\* while section_stack and section_stack[-1][0] >= level: section_stack.pop()
RECURSIVE PopStack(_, _)
PopStack(stack, level) ==
    IF stack # <<>> /\ stack[Len(stack)].level >= level
    THEN PopStack(SubSeq(stack, 1, Len(stack) - 1), level)
    ELSE stack

\* PushHeading popping at most one entry (if for while)
PushHeadingPopOnce(stack, level, title) ==
    Append(IF stack # <<>> /\ stack[Len(stack)].level >= level
           THEN SubSeq(stack, 1, Len(stack) - 1)
           ELSE stack,
           [level |-> level, title |-> title])

\* the stack after a heading block: pop, then push
PushHeading(stack, level, title) ==
    Append(PopStack(stack, level), [level |-> level, title |-> title])

\* f"{n:05d}" for 0 <= n <= 99999
Digit(d) == <<"0", "1", "2", "3", "4", "5", "6", "7", "8", "9">>[d + 1]

Pad5(n) ==
    <<Digit((n \div 10000) % 10), Digit((n \div 1000) % 10),
      Digit((n \div 100) % 10), Digit((n \div 10) % 10), Digit(n % 10)>>

\* f"orca_{chunk_idx:05d}"
OrcaId(n) == <<"o", "r", "c", "a", "_">> \o Pad5(n)

\* Chunk(id=..., text="".join(current).strip(), section_path=section_path(),
\*       offset_char=current_offset, chunk_index=chunk_idx)
MakeChunk(parts, stack, off, idx) ==
    [id            |-> OrcaId(idx),
     text          |-> Strip(Join(parts)),
     section_path  |-> SectionPath(stack),
     offset_char   |-> off,
     chunk_index   |-> idx]

\* current_len >= target_chars * 0.8, in integers
HeadingCloses(len, target) == 5 * len >= 4 * target

\* current_len + len(block) > target_chars and current
Overflows(parts, len, block, target) ==
    /\ len + Len(block) > target
    /\ parts # <<>>

\* what the history keeps of a chunk when it is emitted
Closed(why) ==
    [closed_by    |-> why,
     raw          |-> Join(current),
     carry_in     |-> open.carry_in,
     members      |-> open.members,
     path_at_last |-> open.path_at_last]

NextBlock == blocks[bi + 1]

IsHeadingBlock == HeadingMatches(Strip(NextBlock.text))

\* lines 113-135: a heading arrives and the current chunk is large: the stack
\* is updated, the current chunk is emitted, the heading starts the next one
HeadingEmit ==
    /\ pc = "loop"
    /\ bi < Len(blocks)
    /\ IsHeadingBlock
    /\ HeadingCloses(current_len, target_chars)
    /\ LET block == NextBlock.text
           stack == PushHeading(section_stack,
                                HeadingLevel(Strip(block)),
                                HeadingTitle(Strip(block)))
       IN  /\ section_stack' = stack
           /\ chunks' = Append(chunks,
                  MakeChunk(current, stack, current_offset, chunk_idx))
           /\ hist' = Append(hist, Closed("heading"))
           /\ chunk_idx' = chunk_idx + 1
           /\ current' = <<block>>
           /\ current_len' = Len(block)
           /\ current_offset' = NextBlock.start
           /\ open' = [carry_in |-> <<>>, members |-> <<bi + 1>>,
                       path_at_last |-> SectionPath(stack)]
    /\ bi' = bi + 1
    /\ BuildFrame
    /\ UNCHANGED <<md_text, target_chars, overlap_chars, blocks, pc>>

\* lines 113-119, 136-142: a heading arrives and is kept in the current chunk
HeadingKeep ==
    /\ pc = "loop"
    /\ bi < Len(blocks)
    /\ IsHeadingBlock
    /\ ~HeadingCloses(current_len, target_chars)
    /\ LET block == NextBlock.text
           stack == PushHeading(section_stack,
                                HeadingLevel(Strip(block)),
                                HeadingTitle(Strip(block)))
       IN  /\ section_stack' = stack
           /\ current_offset' =
                  IF current = <<>> THEN NextBlock.start ELSE current_offset
           /\ current' = Append(current, block)
           /\ current_len' = current_len + Len(block)
           /\ open' = [open EXCEPT !.members = Append(@, bi + 1),
                                   !.path_at_last = SectionPath(stack)]
    /\ bi' = bi + 1
    /\ BuildFrame
    /\ UNCHANGED <<md_text, target_chars, overlap_chars, blocks, pc,
                   chunk_idx, chunks, hist>>

\* lines 145-164: a non-heading block does not fit: the current chunk is
\* emitted and the next one starts with the overlap text and the block
ContentOverflow ==
    /\ pc = "loop"
    /\ bi < Len(blocks)
    /\ ~IsHeadingBlock
    /\ Overflows(current, current_len, NextBlock.text, target_chars)
    /\ LET block        == NextBlock.text
           tail         == Join(current)
           overlap_text == NegSlice(tail, overlap_chars)
       IN  /\ chunks' = Append(chunks,
                  MakeChunk(current, section_stack, current_offset, chunk_idx))
           /\ hist' = Append(hist, Closed("overflow"))
           /\ chunk_idx' = chunk_idx + 1
           /\ current' = <<overlap_text, block>>
           /\ current_len' = Len(overlap_text) + Len(block)
           /\ current_offset' =
                  IF NextBlock.start - Len(overlap_text) > 0
                  THEN NextBlock.start - Len(overlap_text) ELSE 0
           /\ open' = [carry_in |-> overlap_text, members |-> <<bi + 1>>,
                       path_at_last |-> SectionPath(section_stack)]
    /\ bi' = bi + 1
    /\ BuildFrame
    /\ UNCHANGED <<md_text, target_chars, overlap_chars, blocks, pc,
                   section_stack>>

\* lines 145-146, 165-167: a non-heading block is appended
ContentAppend ==
    /\ pc = "loop"
    /\ bi < Len(blocks)
    /\ ~IsHeadingBlock
    /\ ~Overflows(current, current_len, NextBlock.text, target_chars)
    /\ current_offset' =
           IF current = <<>> THEN NextBlock.start ELSE current_offset
    /\ current' = Append(current, NextBlock.text)
    /\ current_len' = current_len + Len(NextBlock.text)
    /\ open' = [open EXCEPT !.members = Append(@, bi + 1),
                            !.path_at_last = SectionPath(section_stack)]
    /\ bi' = bi + 1
    /\ BuildFrame
    /\ UNCHANGED <<md_text, target_chars, overlap_chars, blocks, pc,
                   chunk_idx, section_stack, chunks, hist>>

\* FinalFlush returning without emitting what is left in current
FinalFlushForgets ==
    /\ pc = "loop"
    /\ bi = Len(blocks)
    /\ pc' = "done"
    /\ BuildFrame
    /\ UNCHANGED <<md_text, target_chars, overlap_chars, blocks, bi, current,
                   current_len, current_offset, chunk_idx, section_stack, open,
                   chunks, hist>>

\* lines 169-180: after the loop, what is left is emitted; return
FinalFlush ==
    /\ pc = "loop"
    /\ bi = Len(blocks)
    /\ pc' = "done"
    /\ IF current # <<>>
       THEN /\ chunks' = Append(chunks,
                   MakeChunk(current, section_stack, current_offset, chunk_idx))
            /\ hist' = Append(hist, Closed("final"))
       ELSE UNCHANGED <<chunks, hist>>
    /\ BuildFrame
    /\ UNCHANGED <<md_text, target_chars, overlap_chars, blocks, bi, current,
                   current_len, current_offset, chunk_idx, section_stack, open>>

BuildNext ==
    \/ HeadingEmit
    \/ HeadingKeep
    \/ ContentOverflow
    \/ ContentAppend
    \/ FinalFlush

\* lines 101-106: the locals of build_chunks before the loop
BuildStart(t, target, ov) ==
    /\ md_text = t
    /\ target_chars = target
    /\ overlap_chars = ov
    /\ blocks = IterBlocks(t)
    /\ bi = 0
    /\ current = <<>>
    /\ current_len = 0
    /\ current_offset = 0
    /\ chunk_idx = 0
    /\ section_stack = <<>>
    /\ chunks = <<>>
    /\ pc = "loop"
    /\ open = [carry_in |-> <<>>, members |-> <<>>, path_at_last |-> <<>>]
    /\ hist = <<>>

\* build_chunks is not running
BuildIdle == BuildStart(<<>>, 1, 0)

(***************************************************************************)
(* split_into_chunks                                                       *)
(***************************************************************************)

\* text.split("\n\n"): the pieces between non-overlapping occurrences of
\* the separator, found left to right
RECURSIVE SplitParasFrom(_, _, _)
SplitParasFrom(s, i, piece) ==
    IF i > Len(s) THEN <<piece>>
    ELSE IF i < Len(s) /\ s[i] = "\n" /\ s[i + 1] = "\n"
         THEN <<piece>> \o SplitParasFrom(s, i + 2, <<>>)
    ELSE SplitParasFrom(s, i + 1, Append(piece, s[i]))

RECURSIVE StripNonEmpty(_)
StripNonEmpty(ps) ==
    IF ps = <<>> THEN <<>>
    ELSE IF Strip(Head(ps)) # <<>>
         THEN <<Strip(Head(ps))>> \o StripNonEmpty(Tail(ps))
    ELSE StripNonEmpty(Tail(ps))

\* [p.strip() for p in text.split("\n\n") if p.strip()]
Paragraphs(s) == StripNonEmpty(SplitParasFrom(s, 1, <<>>))

\* "\n\n".join(parts)
RECURSIVE JoinParas(_)
JoinParas(parts) ==
    IF parts = <<>> THEN <<>>
    ELSE IF Len(parts) = 1 THEN parts[1]
    ELSE parts[1] \o <<"\n", "\n">> \o JoinParas(Tail(parts))

\* joined[-cfg.overlap:] if cfg.overlap < len(joined) else joined
SplitTail(joined, n) ==
    IF n < Len(joined) THEN NegSlice(joined, n) ELSE joined

\* cur + len(p) + 2 <= cfg.max_chars or not buf
Fits(b, c, p, max) ==
    \/ c + Len(p) + 2 <= max
    \/ b = <<>>

\* lines 108-110: the paragraph is appended to the buffer
ParaAppend ==
    /\ spc = "loop"
    /\ pi < Len(paras)
    /\ Fits(buf, cur, paras[pi + 1], max_chars)
    /\ buf' = Append(buf, paras[pi + 1])
    /\ cur' = cur + Len(paras[pi + 1]) + 2
    /\ last' = [kind |-> "append", para |-> paras[pi + 1], before |-> buf]
    /\ pi' = pi + 1
    /\ SplitFrame
    /\ UNCHANGED <<text, max_chars, overlap, paras, yielded, spc>>

\* a flush that restarts the buffer from the tail alone and loses the
\* paragraph that did not fit
ParaFlushDropsParagraph ==
    /\ spc = "loop"
    /\ pi < Len(paras)
    /\ ~Fits(buf, cur, paras[pi + 1], max_chars)
    /\ LET p      == paras[pi + 1]
           joined == JoinParas(buf)
           tail   == SplitTail(joined, overlap)
       IN  /\ yielded' = Append(yielded, JoinParas(buf))
           /\ buf' = <<tail>>
           /\ cur' = Len(tail) + 2
           /\ last' = [kind |-> "flush", para |-> p, before |-> buf]
    /\ pi' = pi + 1
    /\ SplitFrame
    /\ UNCHANGED <<text, max_chars, overlap, paras, spc>>

\* lines 111-117: the buffer is yielded, and the next one starts with the
\* tail of the yielded text and the paragraph
ParaFlush ==
    /\ spc = "loop"
    /\ pi < Len(paras)
    /\ ~Fits(buf, cur, paras[pi + 1], max_chars)
    /\ LET p      == paras[pi + 1]
           joined == JoinParas(buf)
           tail   == SplitTail(joined, overlap)
       IN  /\ yielded' = Append(yielded, JoinParas(buf))
           /\ buf' = <<tail, p>>
           /\ cur' = Len(tail) + 2 + Len(p)
           /\ last' = [kind |-> "flush", para |-> p, before |-> buf]
    /\ pi' = pi + 1
    /\ SplitFrame
    /\ UNCHANGED <<text, max_chars, overlap, paras, spc>>

\* lines 118-119: after the loop the buffer is yielded, if it holds anything
SplitFinish ==
    /\ spc = "loop"
    /\ pi = Len(paras)
    /\ spc' = "done"
    /\ yielded' = IF buf # <<>> THEN Append(yielded, JoinParas(buf)) ELSE yielded
    /\ last' = [kind |-> "finish", para |-> <<>>, before |-> buf]
    /\ SplitFrame
    /\ UNCHANGED <<text, max_chars, overlap, paras, pi, buf, cur>>

SplitNext ==
    \/ ParaAppend
    \/ ParaFlush
    \/ SplitFinish

\* lines 104-106: the locals of split_into_chunks before the loop
SplitStart(t, max, ov) ==
    /\ text = t
    /\ max_chars = max
    /\ overlap = ov
    /\ paras = Paragraphs(t)
    /\ pi = 0
    /\ buf = <<>>
    /\ cur = 0
    /\ yielded = <<>>
    /\ spc = "loop"
    /\ last = [kind |-> "start", para |-> <<>>, before |-> <<>>]

\* split_into_chunks is not running
SplitIdle == SplitStart(<<>>, 1, 0)

(***************************************************************************)
(* tidy_chunks_inplace: clean_text                                         *)
(*                                                                         *)
(* "^" stands for the stray symbols that are no whitespace (visible space, *)
(* arrows, zero-width space) and Nbsp for the non-breaking space, which    *)
(* Python counts as whitespace.                                            *)
(***************************************************************************)
Stray == "^"

StraySymbols == {Stray, Nbsp}

UpperCase == <<"A", "B", "C", "D", "E", "F", "G", "H", "I", "J", "K", "L", "M",
               "N", "O", "P", "Q", "R", "S", "T", "U", "V", "W", "X", "Y", "Z">>

LowerCase == <<"a", "b", "c", "d", "e", "f", "g", "h", "i", "j", "k", "l", "m",
               "n", "o", "p", "q", "r", "s", "t", "u", "v", "w", "x", "y", "z">>

Letters == {UpperCase[i] : i \in 1..26} \cup {LowerCase[i] : i \in 1..26}

Digits == {"0", "1", "2", "3", "4", "5", "6", "7", "8", "9"}

\* the class \w, and the class [A-Za-z0-9\-] of the def2 markers
WordChars == Letters \cup Digits \cup {"_"}

BasisChars == Letters \cup Digits \cup {"-"}

\* re.I and str.lower() on one character
Lower(c) ==
    IF \E i \in 1..26 : UpperCase[i] = c
    THEN LowerCase[CHOOSE i \in 1..26 : UpperCase[i] = c]
    ELSE c

LowerText(s) == [i \in 1..Len(s) |-> Lower(s[i])]

\* the literal p, compared without case, stands in s from position i on
LitAt(s, i, p) ==
    /\ i >= 1
    /\ i + Len(p) - 1 <= Len(s)
    /\ \A k \in 1..Len(p) : Lower(s[i + k - 1]) = Lower(p[k])

\* the same, compared with case
ExactAt(s, i, p) ==
    /\ i >= 1
    /\ i + Len(p) - 1 <= Len(s)
    /\ \A k \in 1..Len(p) : s[i + k - 1] = p[k]

\* \b after position e of s, whose character is a word character
BoundaryAfter(s, e) == e = Len(s) \/ s[e + 1] \notin WordChars

\* the end of the longest run of characters of the class that starts at
\* position i (i - 1 when there is none)
RunEnd(s, i, class) ==
    CHOOSE e \in (i - 1)..Len(s) :
        /\ \A k \in i..e : s[k] \in class
        /\ e = Len(s) \/ s[e + 1] \notin class

\* position i of s begins a run of characters of the class
RunStart(s, i, class) == s[i] \in class /\ (i = 1 \/ s[i - 1] \notin class)

\* the text of the marked positions that are kept: what a substitution
\* leaves of s when it has decided on every position
Emit(marks) ==
    LET kept == SelectSeq(marks, LAMBDA m : m.keep)
    IN  [i \in 1..Len(kept) |-> kept[i].c]

\* the end of the line that starts at position i, its line break left out
LineEnd(s, i) ==
    CHOOSE e \in (i - 1)..Len(s) :
        /\ \A k \in i..e : s[k] # "\n"
        /\ e = Len(s) \/ s[e + 1] = "\n"

\* text.splitlines()
RECURSIVE PlainLinesFrom(_, _)
PlainLinesFrom(s, i) ==
    IF i > Len(s) THEN <<>>
    ELSE LET e == LineEnd(s, i)
         IN  <<SubSeq(s, i, e)>> \o PlainLinesFrom(s, e + 2)

PlainLines(s) == PlainLinesFrom(s, 1)

\* "\n".join(kept)
RECURSIVE JoinLines(_)
JoinLines(ls) ==
    IF ls = <<>> THEN <<>>
    ELSE IF Len(ls) = 1 THEN ls[1]
    ELSE ls[1] \o <<"\n">> \o JoinLines(Tail(ls))

CommentOpen == <<"<", "!", "-", "-">>

CommentClose == <<"-", "-", ">">>

WordImage == <<"i", "m", "a", "g", "e">>

WordFormula == <<"f", "o", "r", "m", "u", "l", "a", "-", "n", "o", "t", "-",
                 "d", "e", "c", "o", "d", "e", "d">>

PhraseContinues == <<"c", "o", "n", "t", "i", "n", "u", "e", "s", " ", "o", "n",
                     " ", "n", "e", "x", "t", " ", "p", "a", "g", "e">>

PhraseContinued == <<"c", "o", "n", "t", "i", "n", "u", "e", "d", " ", "f", "r",
                     "o", "m", " ", "p", "r", "e", "v", "i", "o", "u", "s", " ",
                     "p", "a", "g", "e">>

\* patterns 1 and 2: the whole line is an HTML comment that holds the word,
\* whitespace allowed around the comment and around the word, case ignored
IsPlaceholder(line, word) ==
    LET u == Strip(LowerText(line))
    IN  /\ Len(u) >= Len(CommentOpen) + Len(word) + Len(CommentClose)
        /\ StartsWith(u, CommentOpen)
        /\ EndsWith(u, CommentClose)
        /\ Strip(SubSeq(u, Len(CommentOpen) + 1, Len(u) - Len(CommentClose)))
               = word

\* pattern 3: the line begins with the phrase, at a word boundary
IsBoilerplate(line, phrase) ==
    /\ LitAt(line, 1, phrase)
    /\ BoundaryAfter(line, Len(phrase))

\* any(p.search(ln) for p in ARTIFACT_LINE_PATTERNS)
IsArtifactLine(line) ==
    \/ IsPlaceholder(line, WordImage)
    \/ IsPlaceholder(line, WordFormula)
    \/ IsBoilerplate(line, PhraseContinues)
    \/ IsBoilerplate(line, PhraseContinued)

\* pat.sub(" ", s) for a pattern that matches every run of at least min
\* characters of the class: the run's first character becomes a space and
\* the others go
CollapseRuns(s, class, min) ==
    Emit([i \in 1..Len(s) |->
            IF s[i] \in class
            THEN LET e == RunEnd(s, i, class)
                     b == IF RunStart(s, i, class) THEN i
                          ELSE CHOOSE a \in 1..i :
                                   /\ RunStart(s, a, class)
                                   /\ \A k \in a..i : s[k] \in class
                 IN  IF e - b + 1 >= min
                     THEN [c |-> " ", keep |-> i = b]
                     ELSE [c |-> s[i], keep |-> TRUE]
            ELSE [c |-> s[i], keep |-> TRUE]])

\* for pat, repl in REPLACEMENTS: s = pat.sub(repl, s)
ApplyReplacements(s) ==
    CollapseRuns(CollapseRuns(s, StraySymbols, 1), Whitespace, 2)

OrcaFlatMinLen == 120

GeomMarker == <<"*", " ", "x", "y", "z">>

GeomMarkerTight == <<"*", "x", "y", "z">>

looks_like_orca_flat(s) ==
    LET s0       == Strip(s)
        has_bang == StartsWith(s0, <<"!">>)
        has_pct  == \E i \in 1..Len(s0) : s0[i] = "%"
        has_geom == \/ \E i \in 1..Len(s0) : LitAt(s0, i, GeomMarker)
                    \/ LitAt(s0, 1, GeomMarkerTight)
        long_single_line == /\ \A i \in 1..Len(s0) : s0[i] # "\n"
                            /\ Len(s0) > OrcaFlatMinLen
    IN  /\ s0 # <<>>
        /\ (has_bang \/ has_pct \/ has_geom)
        /\ long_single_line

\* the keyword alternatives of ORCA_BREAK_REGEX that are plain words
OrcaKeywords ==
    { <<"V", "e", "r", "y", "T", "i", "g", "h", "t", "S", "C", "F">>,
      <<"T", "i", "g", "h", "t", "S", "C", "F">>,
      <<"R", "I", "J", "C", "O", "S", "X">>,
      <<"N", "R", "O", "O", "T", "S">>,
      <<"D", "T", "0", "L">>,
      <<"D", "T", "o", "l">> }

WordEnd == <<"e", "n", "d">>

WordXyz == <<"x", "y", "z">>

WordPal == <<"P", "A", "L">>

BasisDash == <<"d", "e", "f", "2", "-">>

BasisSlash == <<"d", "e", "f", "2", "/">>

\* the longest e in lo..hi with a word boundary after position e (0 when
\* there is none): the backtracking of a greedy class before \b
RECURSIVE LongestBounded(_, _, _)
LongestBounded(s, lo, hi) ==
    IF hi < lo THEN 0
    ELSE IF (s[hi] \in WordChars) # (hi < Len(s) /\ s[hi + 1] \in WordChars)
         THEN hi
    ELSE LongestBounded(s, lo, hi - 1)

\* the position where the group of ORCA_BREAK_REGEX ends when it matches
\* from position j on, 0 when it does not match there
MarkerEnd(s, j) ==
    IF j > Len(s) THEN 0
    ELSE IF s[j] = "%"
         THEN IF j < Len(s) /\ s[j + 1] \in Letters
              THEN RunEnd(s, j + 1, WordChars)
              ELSE 0
    ELSE IF LitAt(s, j, WordEnd)
         THEN IF BoundaryAfter(s, j + 2) THEN j + 2 ELSE 0
    ELSE IF s[j] = "*"
         THEN LET w == RunEnd(s, j + 1, Whitespace)
              IN  IF w > j /\ LitAt(s, w + 1, WordXyz) /\ BoundaryAfter(s, w + 3)
                  THEN w + 3
                  ELSE 0
    ELSE IF \E k \in OrcaKeywords : LitAt(s, j, k) /\ BoundaryAfter(s, j + Len(k) - 1)
         THEN LET k == CHOOSE k \in OrcaKeywords :
                           LitAt(s, j, k) /\ BoundaryAfter(s, j + Len(k) - 1)
              IN  j + Len(k) - 1
    ELSE IF LitAt(s, j, WordPal)
         THEN LET d == RunEnd(s, j + 3, Digits)
              IN  IF BoundaryAfter(s, d) THEN d ELSE 0
    ELSE IF LitAt(s, j, BasisDash) \/ LitAt(s, j, BasisSlash)
         THEN LongestBounded(s, j + 5, RunEnd(s, j + 5, BasisChars))
    ELSE 0

\* ORCA_BREAK_REGEX.sub(lambda m: "\n" + m.group(1), s): every run of
\* whitespace that a marker follows becomes one line break
BreakBeforeMarkers(s) ==
    Emit([i \in 1..Len(s) |->
            IF s[i] \in Whitespace
               /\ MarkerEnd(s, RunEnd(s, i, Whitespace) + 1) > 0
            THEN [c |-> "\n", keep |-> RunStart(s, i, Whitespace)]
            ELSE [c |-> s[i], keep |-> TRUE]])

\* s.replace(old, new) finds the occurrences of old from left to right and
\* takes those that do not overlap an occurrence taken before
RECURSIVE Taken(_, _, _)
Taken(s, i, old) ==
    /\ ExactAt(s, i, old)
    /\ \A j \in (i - Len(old) + 1)..(i - 1) : j < 1 \/ ~Taken(s, j, old)

\* s.replace(old, new) for an old and a new of the same length
Replace(s, old, new) ==
    [p \in 1..Len(s) |->
        IF \E i \in (p - Len(old) + 1)..p : i >= 1 /\ Taken(s, i, old)
        THEN LET i == CHOOSE i \in (p - Len(old) + 1)..p :
                          i >= 1 /\ Taken(s, i, old)
             IN  new[p - i + 1]
        ELSE s[p]]

\* re.sub(r"\s+end\b", "\nend", s, flags=re.I): a run of whitespace before
\* the word becomes one line break, and the word is written in lower case
BreakBeforeEnd(s) ==
    Emit([i \in 1..Len(s) |->
            IF s[i] \in Whitespace
            THEN LET w == RunEnd(s, i, Whitespace)
                 IN  IF LitAt(s, w + 1, WordEnd) /\ BoundaryAfter(s, w + 3)
                     THEN [c |-> "\n", keep |-> RunStart(s, i, Whitespace)]
                     ELSE [c |-> s[i], keep |-> TRUE]
            ELSE IF \E k \in 1..3 :
                       /\ i - k >= 1
                       /\ s[i - k] \in Whitespace
                       /\ LitAt(s, i - k + 1, WordEnd)
                       /\ BoundaryAfter(s, i - k + 3)
                 THEN [c |-> Lower(s[i]), keep |-> TRUE]
            ELSE [c |-> s[i], keep |-> TRUE]])

\* the shortest group of the pattern ^!(.+?)\s+ : the number of characters
\* between the "!" and the first whitespace after at least one character
\* that is no line break (0 when the pattern does not match)
SegmentEndsAt(s, k) ==
    /\ k + 2 <= Len(s)
    /\ \A j \in 2..(k + 1) : s[j] # "\n"
    /\ s[k + 2] \in Whitespace

FirstSegment(s) ==
    IF \E k \in 1..Len(s) : SegmentEndsAt(s, k)
    THEN CHOOSE k \in 1..Len(s) :
             SegmentEndsAt(s, k) /\ \A j \in 1..(k - 1) : ~SegmentEndsAt(s, j)
    ELSE 0

\* lines 45-46: the condition on the first line holds for every s that
\* starts with "!", since the first piece of a split on "\n" holds no "\n"
BreakAfterBang(s) ==
    IF StartsWith(s, <<"!">>)
    THEN LET k == FirstSegment(s)
         IN  IF k = 0 THEN s
             ELSE SubSeq(s, 1, k + 1) \o <<"\n">>
                      \o SubSeq(s, RunEnd(s, k + 2, Whitespace) + 1, Len(s))
    ELSE s

\* re.sub(r"\n{3,}", "\n\n", s): of a run of three or more line breaks the
\* first two stay
CollapseBlankLines(s) ==
    Emit([i \in 1..Len(s) |->
            [c |-> s[i],
             keep |-> ~(/\ i >= 3
                        /\ s[i] = "\n"
                        /\ s[i - 1] = "\n"
                        /\ s[i - 2] = "\n")]])

reformat_orca_text(s) ==
    LET s1 == BreakBeforeMarkers(Strip(s))
        s2 == Replace(s1, <<" ">> \o GeomMarker, <<"\n">> \o GeomMarker)
        s3 == BreakBeforeEnd(s2)
        s4 == BreakAfterBang(s3)
        s5 == Replace(s4, <<" ", "*", " ">>, <<"\n", "*", " ">>)
    IN  CollapseBlankLines(s5)

\* lines 56-58: the artifact lines are dropped
KeptLines(t) == SelectSeq(PlainLines(t), LAMBDA ln : ~IsArtifactLine(ln))

clean_text(t) ==
    LET s == ApplyReplacements(JoinLines(KeptLines(t)))
    IN  Strip(IF looks_like_orca_flat(s) THEN reformat_orca_text(s) ELSE s)

(***************************************************************************)
(* tidy_chunks_inplace: process_chunks and the script's entry point        *)
(*                                                                         *)
(* A file is a record: whether it exists and the lines it holds.  A line   *)
(* holds its JSON syntax ("garbage" cannot be parsed, "loose" is JSON in   *)
(* any layout, "canon" is the layout json.dumps writes), the kind of the   *)
(* value it denotes, and for an object its id, its text and its meta.      *)
(***************************************************************************)
MaxRuns == 2

Absent == [exists |-> FALSE, lines |-> <<>>]

File(ls) == [exists |-> TRUE, lines |-> ls]

\* the file that line 77 reads
InputFile == IF in_f = "bak" THEN bak ELSE chunks_path

NextLine == InputFile.lines[total + 1]

\* json.loads(line) raises
LoadsFails(line) == line.syntax = "garbage"

\* rec.get("text", "") on the loaded value, and clean_text on the result,
\* run without an exception: the value is an object and its text, when it
\* has one, is a string
Processable(line) ==
    /\ line.value = "object"
    /\ line.text_kind \in {"str", "missing"}

\* lines 84-89: the line written for a loaded record
Rewritten(line) ==
    LET txt     == IF line.text_kind = "missing" THEN <<>> ELSE line.text
        cleaned == clean_text(txt)
    IN  IF cleaned # txt
        THEN [line EXCEPT !.syntax = "canon", !.text = cleaned,
                          !.text_kind = "str"]
        ELSE [line EXCEPT !.syntax = "canon"]

\* the lines process_chunks writes for the lines ls when nothing fails
RECURSIVE CleanedLines(_)
CleanedLines(ls) ==
    IF ls = <<>> THEN <<>>
    ELSE IF LoadsFails(Head(ls)) THEN CleanedLines(Tail(ls))
    ELSE <<Rewritten(Head(ls))>> \o CleanedLines(Tail(ls))

\* lines 100-102: the chunk file does not exist
TidyNotFound ==
    /\ tpc = "main"
    /\ ~chunks_path.exists
    /\ tpc' = "exit"
    /\ UNCHANGED <<backup, chunks_path, bak, tmp_out, in_f, total, changed,
                   original, runs, results>>
    /\ TidyFrame

\* lines 70-73 with backup: the chunk file is renamed to the backup name
TidyBackup ==
    /\ tpc = "main"
    /\ chunks_path.exists
    /\ backup
    /\ bak' = chunks_path
    /\ chunks_path' = Absent
    /\ in_f' = "bak"
    /\ tpc' = "open"
    /\ UNCHANGED <<backup, tmp_out, total, changed, original, runs, results>>
    /\ TidyFrame

\* line 73 without backup: the chunk file itself is read
TidyNoBackup ==
    /\ tpc = "main"
    /\ chunks_path.exists
    /\ ~backup
    /\ in_f' = "chunks"
    /\ tpc' = "open"
    /\ UNCHANGED <<backup, chunks_path, bak, tmp_out, total, changed, original, runs, results>>
    /\ TidyFrame

\* lines 75-77: the input is opened and the temp file is created empty
TidyOpen ==
    /\ tpc = "open"
    /\ tmp_out' = File(<<>>)
    /\ total' = 0
    /\ changed' = 0
    /\ tpc' = "loop"
    /\ UNCHANGED <<backup, chunks_path, bak, in_f, original, runs, results>>
    /\ TidyFrame

\* lines 79-83: a line that json.loads rejects is passed over
TidySkipLine ==
    /\ tpc = "loop"
    /\ total < Len(InputFile.lines)
    /\ LoadsFails(NextLine)
    /\ total' = total + 1
    /\ UNCHANGED <<backup, chunks_path, bak, tmp_out, in_f, changed, tpc,
                   original, runs, results>>
    /\ TidyFrame

\* a loop body that writes the record with a fresh id
TidyWriteLineRenumbers ==
    /\ tpc = "loop"
    /\ total < Len(InputFile.lines)
    /\ ~LoadsFails(NextLine)
    /\ Processable(NextLine)
    /\ total' = total + 1
    /\ changed' = IF Rewritten(NextLine).text # NextLine.text
                  THEN changed + 1 ELSE changed
    /\ tmp_out' = File(Append(tmp_out.lines,
                              [Rewritten(NextLine) EXCEPT !.id = total]))
    /\ UNCHANGED <<backup, chunks_path, bak, in_f, tpc, original, runs, results>>
    /\ TidyFrame

\* lines 79-89: the record is loaded, its text cleaned, and the record
\* written to the temp file
TidyWriteLine ==
    /\ tpc = "loop"
    /\ total < Len(InputFile.lines)
    /\ ~LoadsFails(NextLine)
    /\ Processable(NextLine)
    /\ total' = total + 1
    /\ changed' = IF Rewritten(NextLine).text # NextLine.text
                  THEN changed + 1 ELSE changed
    /\ tmp_out' = File(Append(tmp_out.lines, Rewritten(NextLine)))
    /\ UNCHANGED <<backup, chunks_path, bak, in_f, tpc, original, runs, results>>
    /\ TidyFrame

\* lines 84-85: rec.get or clean_text raises on a value that is no object or
\* on a text that is no string; the exception leaves the function
TidyRaise ==
    /\ tpc = "loop"
    /\ total < Len(InputFile.lines)
    /\ ~LoadsFails(NextLine)
    /\ ~Processable(NextLine)
    /\ total' = total + 1
    /\ tpc' = "raised"
    /\ UNCHANGED <<backup, chunks_path, bak, tmp_out, in_f, changed, original, runs, results>>
    /\ TidyFrame

\* a replacement that does not wait for the end of the input
TidyReplaceEarly ==
    /\ tpc = "loop"
    /\ chunks_path' = tmp_out
    /\ tmp_out' = Absent
    /\ tpc' = "done"
    /\ results' = Append(results, tmp_out)
    /\ UNCHANGED <<backup, bak, in_f, total, changed, original, runs>>
    /\ TidyFrame

\* lines 90-91: after the last line both files are closed and the temp file
\* replaces the chunk file
TidyReplace ==
    /\ tpc = "loop"
    /\ total = Len(InputFile.lines)
    /\ chunks_path' = tmp_out
    /\ tmp_out' = Absent
    /\ tpc' = "done"
    /\ results' = Append(results, tmp_out)
    /\ UNCHANGED <<backup, bak, in_f, total, changed, original, runs>>
    /\ TidyFrame

\* the process is killed between two steps; the files stay as they are
TidyCrash ==
    /\ tpc \in {"main", "open", "loop"}
    /\ tpc' = "crashed"
    /\ UNCHANGED <<backup, chunks_path, bak, tmp_out, in_f, total, changed,
                   original, runs, results>>
    /\ TidyFrame

\* the script is started once more on the file the last run left; the
\* backup name of the new run is a new one, or the same when both runs fall
\* into one second
TidyAgain ==
    /\ tpc = "done"
    /\ runs < MaxRuns
    /\ runs' = runs + 1
    /\ tpc' = "main"
    /\ original' = chunks_path
    /\ bak' \in {Absent, bak}
    /\ in_f' = "chunks"
    /\ total' = 0
    /\ changed' = 0
    /\ UNCHANGED <<backup, chunks_path, tmp_out, results>>
    /\ TidyFrame

TidyNext ==
    \/ TidyNotFound
    \/ TidyBackup
    \/ TidyNoBackup
    \/ TidyOpen
    \/ TidySkipLine
    \/ TidyWriteLine
    \/ TidyRaise
    \/ TidyReplace
    \/ TidyCrash
    \/ TidyAgain

\* the script is started on the chunk file f
TidyStart(f, b) ==
    /\ backup = b
    /\ chunks_path = f
    /\ bak = Absent
    /\ tmp_out = Absent
    /\ in_f = "chunks"
    /\ total = 0
    /\ changed = 0
    /\ tpc = "main"
    /\ runs = 1
    /\ original = f
    /\ results = <<>>

\* the tidy pass is not running
TidyIdle == TidyStart(Absent, FALSE)

(***************************************************************************)
(* make_chunks_from_docs: HTMLParser.feed                                  *)
(*                                                                         *)
(* An HTML text is a sequence of tokens: start tags, end tags and runs of  *)
(* text.  feed() turns it into the calls of handle_starttag, handle_endtag *)
(* and handle_data.  "None" stands for Python's None.                      *)
(***************************************************************************)
StartTag(t) == [kind |-> "start", tag |-> t, src |-> "None", chars |-> <<>>]

Img(s) == [kind |-> "start", tag |-> "img", src |-> s, chars |-> <<>>]

EndTag(t) == [kind |-> "end", tag |-> t, src |-> "None", chars |-> <<>>]

TextRun(c) == [kind |-> "text", tag |-> "", src |-> "None", chars |-> c]

\* the call handle_data(c)
Data(c) == [kind |-> "data", tag |-> "", src |-> "None", chars |-> c]

\* HTMLParser.CDATA_CONTENT_ELEMENTS
CdataElements == {"script", "style"}

\* the source text of a token, as the content of a script or style element
\* holds it
Source(tok) ==
    IF tok.kind = "text" THEN tok.chars
    ELSE IF tok.kind = "start" THEN <<"<", tok.tag, ">">>
    ELSE <<"</", tok.tag, ">">>

RECURSIVE RawText(_, _, _)
RawText(toks, i, j) ==
    IF i > j THEN <<>> ELSE Source(toks[i]) \o RawText(toks, i + 1, j)

\* feed() keeps a text at the end of the input for the next call when its
\* last "&", within the last 34 characters, is followed by no whitespace
\* and no ";": the text may end inside a character reference.
\* html_to_text and harvest_figures call feed() once and never close().
HeldBack(pending) ==
    \E a \in 1..Len(pending) :
        /\ pending[a] = "&"
        /\ a > Len(pending) - 34
        /\ \A k \in a..Len(pending) : pending[k] \notin Whitespace \cup {";"}

\* handle_data for the text before a tag
FlushText(pending) == IF pending = <<>> THEN <<>> ELSE <<Data(pending)>>

\* the position of the end tag that closes the script or style element
\* opened at position i (0 when there is none)
CdataEnd(toks, i) ==
    IF \E m \in (i + 1)..Len(toks) : toks[m] = EndTag(toks[i].tag)
    THEN CHOOSE m \in (i + 1)..Len(toks) :
             /\ toks[m] = EndTag(toks[i].tag)
             /\ \A k \in (i + 1)..(m - 1) : toks[k] # EndTag(toks[i].tag)
    ELSE 0

\* the handler calls of feed(), in order: text between two tags is one
\* call; the content of a script or style element is text up to its end tag
\* and is not delivered when the end tag is missing
RECURSIVE Feed(_, _, _)
Feed(toks, i, pending) ==
    IF i > Len(toks)
    THEN IF HeldBack(pending) THEN <<>> ELSE FlushText(pending)
    ELSE IF toks[i].kind = "text"
         THEN Feed(toks, i + 1, pending \o toks[i].chars)
    ELSE IF toks[i].kind = "start" /\ toks[i].tag \in CdataElements
         THEN LET m == CdataEnd(toks, i)
              IN  IF m = 0 THEN FlushText(pending) \o <<toks[i]>>
                  ELSE FlushText(pending) \o <<toks[i]>>
                           \o FlushText(RawText(toks, i + 1, m - 1))
                           \o <<toks[m]>> \o Feed(toks, m + 1, <<>>)
    ELSE FlushText(pending) \o <<toks[i]>> \o Feed(toks, i + 1, <<>>)

(***************************************************************************)
(* make_chunks_from_docs: _TextExtractor and html_to_text                  *)
(***************************************************************************)
BreakBefore == {"p", "br", "li", "tr", "h1", "h2", "h3", "h4", "h5"}

BreakAfter == {"p", "li", "tr"}

NextEvent == events[epos + 1]

\* lines 17-21
TextStartTag ==
    /\ xpc = "feed"
    /\ epos < Len(events)
    /\ NextEvent.kind = "start"
    /\ _in_script_style' =
           IF NextEvent.tag \in CdataElements THEN TRUE ELSE _in_script_style
    /\ _chunks' = IF NextEvent.tag \in BreakBefore
                  THEN Append(_chunks, <<"\n">>) ELSE _chunks
    /\ epos' = epos + 1
    /\ UNCHANGED <<html, events, text_out, xpc>>
    /\ TextFrame

\* lines 23-27
TextEndTag ==
    /\ xpc = "feed"
    /\ epos < Len(events)
    /\ NextEvent.kind = "end"
    /\ _in_script_style' =
           IF NextEvent.tag \in CdataElements THEN FALSE ELSE _in_script_style
    /\ _chunks' = IF NextEvent.tag \in BreakAfter
                  THEN Append(_chunks, <<"\n">>) ELSE _chunks
    /\ epos' = epos + 1
    /\ UNCHANGED <<html, events, text_out, xpc>>
    /\ TextFrame

\* lines 29-32
TextData ==
    /\ xpc = "feed"
    /\ epos < Len(events)
    /\ NextEvent.kind = "data"
    /\ _chunks' = IF _in_script_style THEN _chunks
                  ELSE Append(_chunks, NextEvent.chars)
    /\ epos' = epos + 1
    /\ UNCHANGED <<html, events, _in_script_style, text_out, xpc>>
    /\ TextFrame

\* line 37: a carriage return with or without a line feed, and a
\* non-breaking space, become a line feed
BreaksToNewline(s) ==
    Emit([i \in 1..Len(s) |->
            IF s[i] \in {"\r", Nbsp} THEN [c |-> "\n", keep |-> TRUE]
            ELSE [c |-> s[i],
                  keep |-> ~(s[i] = "\n" /\ i > 1 /\ s[i - 1] = "\r")]])

\* lines 35-40
get_text(parts) ==
    LET s1 == BreaksToNewline(Join(parts))
        s2 == CollapseRuns(s1, {" ", "\t", "\f"}, 1)
    IN  Strip(CollapseBlankLines(s2))

\* lines 43-46: feed() has returned, get_text() gives the result
TextFinish ==
    /\ xpc = "feed"
    /\ epos = Len(events)
    /\ text_out' = get_text(_chunks)
    /\ xpc' = "done"
    /\ UNCHANGED <<html, events, epos, _chunks, _in_script_style>>
    /\ TextFrame

TextNext ==
    \/ TextStartTag
    \/ TextEndTag
    \/ TextData
    \/ TextFinish

\* lines 12-15 and 44-45: a new parser is fed the text
TextStart(toks) ==
    /\ html = toks
    /\ events = Feed(toks, 1, <<>>)
    /\ epos = 0
    /\ _chunks = <<>>
    /\ _in_script_style = FALSE
    /\ text_out = <<>>
    /\ xpc = "feed"

TextIdle == TextStart(<<>>)

(***************************************************************************)
(* make_chunks_from_docs: _FigureHarvester and harvest_figures             *)
(***************************************************************************)
FigEvent == fig_events[fig_pos + 1]

\* lines 59-71
FigStartTag ==
    /\ fpc = "feed"
    /\ fig_pos < Len(fig_events)
    /\ FigEvent.kind = "start"
    /\ LET tag     == FigEvent.tag
           figure  == tag = "figure"
           inside  == in_figure \/ figure
           src1    == IF figure THEN "None" ELSE current_src
           chunks1 == IF figure THEN <<>> ELSE current_caption_chunks
       IN  /\ in_figure' = inside
           /\ current_src' = IF inside /\ tag = "img" /\ FigEvent.src # "None"
                             THEN FigEvent.src ELSE src1
           /\ in_figcaption' = IF inside /\ tag = "figcaption"
                               THEN TRUE ELSE in_figcaption
           /\ current_caption_chunks' =
                  IF inside /\ tag = "br" THEN Append(chunks1, <<"\n">>)
                  ELSE chunks1
    /\ fig_pos' = fig_pos + 1
    /\ UNCHANGED <<fig_html, fig_events, items, figures, fpc>>
    /\ FigFrame

\* lines 73-81
FigEndTag ==
    /\ fpc = "feed"
    /\ fig_pos < Len(fig_events)
    /\ FigEvent.kind = "end"
    /\ in_figcaption' = IF FigEvent.tag = "figcaption"
                        THEN FALSE ELSE in_figcaption
    /\ IF FigEvent.tag = "figure"
       THEN /\ items' = Append(items,
                               [src |-> current_src,
                                caption |-> Strip(Join(current_caption_chunks))])
            /\ in_figure' = FALSE
            /\ current_src' = "None"
            /\ current_caption_chunks' = <<>>
       ELSE UNCHANGED <<items, in_figure, current_src, current_caption_chunks>>
    /\ fig_pos' = fig_pos + 1
    /\ UNCHANGED <<fig_html, fig_events, figures, fpc>>
    /\ FigFrame

\* lines 83-85
FigData ==
    /\ fpc = "feed"
    /\ fig_pos < Len(fig_events)
    /\ FigEvent.kind = "data"
    /\ IF in_figure /\ in_figcaption
       THEN current_caption_chunks' =
                Append(current_caption_chunks, FigEvent.chars)
       ELSE UNCHANGED current_caption_chunks
    /\ fig_pos' = fig_pos + 1
    /\ UNCHANGED <<fig_html, fig_events, in_figure, in_figcaption, current_src,
                   items, figures, fpc>>
    /\ FigFrame

\* it.get("caption") or it.get("src")
NotEmpty(it) == it.caption # <<>> \/ it.src \notin {"None", ""}

\* lines 88-92: feed() has returned, the empty items are removed
FigFinish ==
    /\ fpc = "feed"
    /\ fig_pos = Len(fig_events)
    /\ figures' = SelectSeq(items, NotEmpty)
    /\ fpc' = "done"
    /\ UNCHANGED <<fig_html, fig_events, fig_pos, in_figure, in_figcaption,
                   current_src, current_caption_chunks, items>>
    /\ FigFrame

FigNext ==
    \/ FigStartTag
    \/ FigEndTag
    \/ FigData
    \/ FigFinish

\* lines 51-57 and 89-90: a new harvester is fed the text
FigStart(toks) ==
    /\ fig_html = toks
    /\ fig_events = Feed(toks, 1, <<>>)
    /\ fig_pos = 0
    /\ in_figure = FALSE
    /\ in_figcaption = FALSE
    /\ current_src = "None"
    /\ current_caption_chunks = <<>>
    /\ items = <<>>
    /\ figures = <<>>
    /\ fpc = "feed"

FigIdle == FigStart(<<>>)

(***************************************************************************)
(* The batch converters: main() of convert_all.py, scripts/convert_all.py  *)
(* and scripts/convert_all_splits.py.                                      *)
(*                                                                         *)
(* convert_all.py and scripts/convert_all.py work on the PDFs of one       *)
(* folder, convert_all_splits.py on the PDFs of every subfolder.  An item  *)
(* is a pair <<folder, position in the folder>>.  What a conversion does   *)
(* is the environment's choice: the body of the try block runs to its end  *)
(* or raises an Exception.                                                 *)
(***************************************************************************)
RootScript == "convert_all.py"

OptionsScript == "scripts/convert_all.py"

SplitsScript == "scripts/convert_all_splits.py"

\* nothing to convert: no PDF in the folder, or no split folder at all
NoWork ==
    IF script = SplitsScript THEN folders = <<>> ELSE folders[1] = 0

\* "No se encontraron ...": the early return
ConvertNothing ==
    /\ cvpc = "start"
    /\ NoWork
    /\ cvpc' = "done"
    /\ UNCHANGED <<script, folders, fold, pdf, ok, total_files, summary,
                   errors, attempted>>
    /\ ConvFrame

\* the converter is built and the counters are set to 0; the scripts that
\* work on one folder enter their only loop
ConvertSetup ==
    /\ cvpc = "start"
    /\ ~NoWork
    /\ ok' = 0
    /\ total_files' = 0
    /\ IF script = SplitsScript
       THEN fold' = 0 /\ cvpc' = "folders"
       ELSE fold' = 1 /\ cvpc' = "pdfs"
    /\ pdf' = 0
    /\ UNCHANGED <<script, folders, summary, errors, attempted>>
    /\ ConvFrame

\* convert_all_splits lines 42-45: a folder without PDFs is passed over
ConvertSkipFolder ==
    /\ cvpc = "folders"
    /\ fold < Len(folders)
    /\ folders[fold + 1] = 0
    /\ fold' = fold + 1
    /\ UNCHANGED <<script, folders, pdf, ok, total_files, cvpc, summary,
                   errors, attempted>>
    /\ ConvFrame

\* convert_all_splits lines 42-48: the next folder, its output folder made
ConvertEnterFolder ==
    /\ cvpc = "folders"
    /\ fold < Len(folders)
    /\ folders[fold + 1] > 0
    /\ fold' = fold + 1
    /\ pdf' = 0
    /\ cvpc' = "pdfs"
    /\ UNCHANGED <<script, folders, ok, total_files, summary, errors,
                   attempted>>
    /\ ConvFrame

\* the options of scripts/convert_all.py that add work to the try block:
\* exporting the assets ends well, ends with an Exception that lines
\* 137-138 swallow, or is not asked for
AssetOutcomes ==
    IF script = OptionsScript THEN {"none", "saved", "failed"} ELSE {"none"}

\* the loop goes on with the next PDF of the folder, or leaves the folder
AfterItem ==
    /\ pdf' = pdf + 1
    /\ cvpc' = IF pdf + 1 = folders[fold] THEN "folders" ELSE "pdfs"
    /\ total_files' = IF script = SplitsScript
                      THEN total_files + 1 ELSE total_files

\* one pass of the for loop whose try block runs to its end: the PDF is
\* converted, the output written and the counter incremented
ConvertItemOk ==
    /\ cvpc = "pdfs"
    /\ pdf < folders[fold]
    /\ \E a \in AssetOutcomes :
           attempted' = Append(attempted, [item |-> <<fold, pdf + 1>>,
                                           result |-> "ok", assets |-> a])
    /\ ok' = ok + 1
    /\ AfterItem
    /\ UNCHANGED <<script, folders, fold, summary, errors>>
    /\ ConvFrame

\* the exception of the try block is counted as a conversion
ConvertItemFailsCounted ==
    /\ cvpc = "pdfs"
    /\ pdf < folders[fold]
    /\ \E a \in AssetOutcomes :
           attempted' = Append(attempted, [item |-> <<fold, pdf + 1>>,
                                           result |-> "failed", assets |-> a])
    /\ errors' = Append(errors, <<fold, pdf + 1>>)
    /\ ok' = ok + 1
    /\ AfterItem
    /\ UNCHANGED <<script, folders, fold, summary>>
    /\ ConvFrame

\* one pass of the for loop whose try block raises an Exception: the except
\* clause prints the [ERROR] line with the file's name
ConvertItemFails ==
    /\ cvpc = "pdfs"
    /\ pdf < folders[fold]
    /\ \E a \in AssetOutcomes :
           attempted' = Append(attempted, [item |-> <<fold, pdf + 1>>,
                                           result |-> "failed", assets |-> a])
    /\ errors' = Append(errors, <<fold, pdf + 1>>)
    /\ AfterItem
    /\ UNCHANGED <<script, folders, fold, ok, summary>>
    /\ ConvFrame

\* "Listo. Convertidos: ok/total": the scripts that work on one folder
\* print len(pdfs), convert_all_splits prints its counter
ConvertSummary ==
    /\ cvpc = "folders"
    /\ fold = Len(folders)
    /\ summary' = <<ok, IF script = SplitsScript
                         THEN total_files ELSE folders[1]>>
    /\ cvpc' = "done"
    /\ UNCHANGED <<script, folders, fold, pdf, ok, total_files, errors,
                   attempted>>
    /\ ConvFrame

ConvertNext ==
    \/ ConvertNothing
    \/ ConvertSetup
    \/ ConvertSkipFolder
    \/ ConvertEnterFolder
    \/ ConvertItemOk
    \/ ConvertItemFails
    \/ ConvertSummary

\* main() is entered
ConvertStart(sc, fs) ==
    /\ script = sc
    /\ folders = fs
    /\ fold = 0
    /\ pdf = 0
    /\ ok = 0
    /\ total_files = 0
    /\ cvpc = "start"
    /\ summary = <<>>
    /\ errors = <<>>
    /\ attempted = <<>>

\* no converter is running
ConvertIdle == ConvertStart(RootScript, <<0>>)

(***************************************************************************)
(* The entry points of tidy_chunks_inplace, prepare_llamaindex_dataset,    *)
(* concat_md and make_chunks_from_docs, and what they do to the output     *)
(* file and its backup.                                                    *)
(*                                                                         *)
(* The input is the chunk file, the Markdown file, the folder of the parts *)
(* or the source folder.  The output file holds what it held before the    *)
(* run ("old"), nothing ("empty"), or what the run wrote ("new").  The     *)
(* tidy pass writes over its input, so its output file is its input.       *)
(***************************************************************************)
TidyProgram == "tidy_chunks_inplace.py"

PrepareProgram == "prepare_llamaindex_dataset.py"

ConcatProgram == "concat_md.py"

ChunksProgram == "make_chunks_from_docs.py"

\* tidy_chunks_inplace lines 100-102: raise SystemExit("Not found: ...")
MainTidyNotFound ==
    /\ program = TidyProgram
    /\ mnpc = "start"
    /\ input = "missing"
    /\ mnpc' = "aborted"
    /\ UNCHANGED <<program, input, out_parent, out_file, bak_file, at_start>>
    /\ MainFrame

\* tidy_chunks_inplace line 103: process_chunks runs, with or without
\* backup, to its end or to an exception of the loop
MainTidy ==
    /\ program = TidyProgram
    /\ mnpc = "start"
    /\ input # "missing"
    /\ \E bk \in BOOLEAN, raises \in BOOLEAN :
           /\ bak_file' = IF bk THEN "old" ELSE bak_file
           /\ out_file' = IF ~raises THEN "new"
                          ELSE IF bk THEN "absent" ELSE "old"
           /\ mnpc' = IF raises THEN "aborted" ELSE "done"
    /\ UNCHANGED <<program, input, out_parent, at_start>>
    /\ MainFrame

\* prepare_llamaindex_dataset lines 209-211: raise FileNotFoundError
MainPrepareNotFound ==
    /\ program = PrepareProgram
    /\ mnpc = "start"
    /\ input = "missing"
    /\ mnpc' = "aborted"
    /\ UNCHANGED <<program, input, out_parent, out_file, bak_file, at_start>>
    /\ MainFrame

\* prepare_llamaindex_dataset lines 213-216 and write_jsonl
MainPrepare ==
    /\ program = PrepareProgram
    /\ mnpc = "start"
    /\ input # "missing"
    /\ out_parent' = TRUE
    /\ out_file' = "new"
    /\ mnpc' = "done"
    /\ UNCHANGED <<program, input, bak_file, at_start>>
    /\ MainFrame

\* concat_md lines 28-30: raise FileNotFoundError
MainConcatNotFound ==
    /\ program = ConcatProgram
    /\ mnpc = "start"
    /\ input = "missing"
    /\ mnpc' = "aborted"
    /\ UNCHANGED <<program, input, out_parent, out_file, bak_file, at_start>>
    /\ MainFrame

\* concat_md lines 9-11: the folder holds no .md file
MainConcatNoParts ==
    /\ program = ConcatProgram
    /\ mnpc = "start"
    /\ input = "blank"
    /\ mnpc' = "aborted"
    /\ UNCHANGED <<program, input, out_parent, out_file, bak_file, at_start>>
    /\ MainFrame

\* concat_md lines 12-19
MainConcat ==
    /\ program = ConcatProgram
    /\ mnpc = "start"
    /\ input = "present"
    /\ out_parent' = TRUE
    /\ out_file' = "new"
    /\ mnpc' = "done"
    /\ UNCHANGED <<program, input, bak_file, at_start>>
    /\ MainFrame

\* make_chunks_from_docs lines 182-187: the paths are resolved and the
\* folder of the output file is made; nothing looks at the source folder
MainChunksMkdir ==
    /\ program = ChunksProgram
    /\ mnpc = "start"
    /\ out_parent' = TRUE
    /\ mnpc' = "backup"
    /\ UNCHANGED <<program, input, out_file, bak_file, at_start>>
    /\ MainFrame

\* lines 190-194: the output file takes the place of the backup
MainChunksBackup ==
    /\ program = ChunksProgram
    /\ mnpc = "backup"
    /\ out_file # "absent"
    /\ bak_file' = out_file
    /\ out_file' = "absent"
    /\ mnpc' = "walk"
    /\ UNCHANGED <<program, input, out_parent, at_start>>
    /\ MainFrame

\* lines 190-196: replace() raises and the exception is passed over
MainChunksBackupFails ==
    /\ program = ChunksProgram
    /\ mnpc = "backup"
    /\ out_file # "absent"
    /\ mnpc' = "walk"
    /\ UNCHANGED <<program, input, out_parent, out_file, bak_file, at_start>>
    /\ MainFrame

\* line 190: there is no output file to back up
MainChunksNoBackup ==
    /\ program = ChunksProgram
    /\ mnpc = "backup"
    /\ out_file = "absent"
    /\ mnpc' = "walk"
    /\ UNCHANGED <<program, input, out_parent, out_file, bak_file, at_start>>
    /\ MainFrame

\* lines 199-213: rglob() of a folder that does not exist yields nothing, as
\* does a folder without .html and .md files; open("w") makes the output
\* file or empties it, and process_file writes the records of every file
MainChunksWrite ==
    /\ program = ChunksProgram
    /\ mnpc = "walk"
    /\ out_file' = IF input = "present" THEN "new" ELSE "empty"
    /\ mnpc' = "done"
    /\ UNCHANGED <<program, input, out_parent, bak_file, at_start>>
    /\ MainFrame

MainNext ==
    \/ MainTidyNotFound
    \/ MainTidy
    \/ MainPrepareNotFound
    \/ MainPrepare
    \/ MainConcatNotFound
    \/ MainConcatNoParts
    \/ MainConcat
    \/ MainChunksMkdir
    \/ MainChunksBackup
    \/ MainChunksBackupFails
    \/ MainChunksNoBackup
    \/ MainChunksWrite

\* the script is started
MainStart(pr, inp, dir, out, old_bak) ==
    /\ program = pr
    /\ input = inp
    /\ out_parent = dir
    /\ out_file = out
    /\ bak_file = old_bak
    /\ mnpc = "start"
    /\ at_start = <<out, old_bak>>

\* no script is running
MainIdle ==
    /\ program = "None"
    /\ input = "missing"
    /\ out_parent = FALSE
    /\ out_file = "absent"
    /\ bak_file = "absent"
    /\ mnpc = "done"
    /\ at_start = <<"absent", "absent">>

(***************************************************************************)
(* make_chunks_from_docs: process_file                                     *)
(*                                                                         *)
(* The text chunks are what split_into_chunks yields for the text of the   *)
(* file, the figures what harvest_figures returned for it (none for a      *)
(* Markdown file).  A record holds its id, its text and, of its meta, the  *)
(* asset path and the type ("None" where the code sets none).              *)
(***************************************************************************)
\* f"{path.stem}_{idx:05d}"
TextId(st, n) == st \o <<"_">> \o Pad5(n)

\* f"{path.stem}_fig_{idx:05d}"
FigId(st, n) == st \o <<"_", "f", "i", "g", "_">> \o Pad5(n)

\* lines 150-165: the text and the asset path of a figure record; a src
\* of None or "" counts as no src
FigText(item) ==
    LET cap  == Strip(item.caption)
        head == IF cap # <<>> THEN <<"F", "i", "g", "u", "r", "e", ":", " ">> \o cap
                ELSE <<"F", "i", "g", "u", "r", "e">>
    IN  IF item.src \notin {"None", ""}
        THEN head \o <<"\n", "A", "s", "s", "e", "t", ":", " ", item.src>>
        ELSE head

AssetPath(item, root) ==
    IF item.src \notin {"None", ""} /\ root # "None"
    THEN <<root, "/", item.src>>
    ELSE <<item.src>>

\* lines 137-147: one pass of the loop over the text chunks
FileWriteChunk ==
    /\ pfpc = "chunks"
    /\ file_idx < Len(text_chunks)
    /\ fout' = Append(fout, [id |-> TextId(stem, file_idx),
                             text |-> Strip(text_chunks[file_idx + 1]),
                             asset_path |-> <<"None">>,
                             type |-> "None"])
    /\ file_idx' = file_idx + 1
    /\ UNCHANGED <<stem, assets_root, text_chunks, figs, pfpc>>
    /\ FileFrame

\* the generator is exhausted: the loop over the figures begins
FileChunksDone ==
    /\ pfpc = "chunks"
    /\ file_idx = Len(text_chunks)
    /\ pfpc' = "figures"
    /\ UNCHANGED <<stem, assets_root, text_chunks, figs, file_idx, fout>>
    /\ FileFrame

\* the figures are numbered from 0 again
FileWriteFigureRestarts ==
    /\ pfpc = "figures"
    /\ file_idx - Len(text_chunks) < Len(figs)
    /\ LET item == figs[file_idx - Len(text_chunks) + 1]
       IN  fout' = Append(fout, [id |-> FigId(stem, file_idx - Len(text_chunks)),
                                 text |-> FigText(item),
                                 asset_path |-> AssetPath(item, assets_root),
                                 type |-> "figure"])
    /\ file_idx' = file_idx + 1
    /\ UNCHANGED <<stem, assets_root, text_chunks, figs, pfpc>>
    /\ FileFrame

\* lines 149-170: one pass of the loop over the figures
FileWriteFigure ==
    /\ pfpc = "figures"
    /\ file_idx - Len(text_chunks) < Len(figs)
    /\ LET item == figs[file_idx - Len(text_chunks) + 1]
       IN  fout' = Append(fout, [id |-> FigId(stem, file_idx),
                                 text |-> FigText(item),
                                 asset_path |-> AssetPath(item, assets_root),
                                 type |-> "figure"])
    /\ file_idx' = file_idx + 1
    /\ UNCHANGED <<stem, assets_root, text_chunks, figs, pfpc>>
    /\ FileFrame

\* the list of figures is exhausted: process_file returns
FileDone ==
    /\ pfpc = "figures"
    /\ file_idx - Len(text_chunks) = Len(figs)
    /\ pfpc' = "done"
    /\ UNCHANGED <<stem, assets_root, text_chunks, figs, file_idx, fout>>
    /\ FileFrame

FileNext ==
    \/ FileWriteChunk
    \/ FileChunksDone
    \/ FileWriteFigure
    \/ FileDone

\* lines 124-136: process_file is entered, the text and the figures are read
FileStart(st, root, cs, fs) ==
    /\ stem = st
    /\ assets_root = root
    /\ text_chunks = cs
    /\ figs = fs
    /\ file_idx = 0
    /\ fout = <<>>
    /\ pfpc = "chunks"

\* process_file on a file without text and figures
FileIdle == FileStart(<<"d">>, "None", <<>>, <<>>)

(***************************************************************************)
(* Inputs.  Every specification starts one program on an input drawn from  *)
(* a bounded family and on every parameter pair within the bounds.         *)
(***************************************************************************)
MaxLines == 3
MaxHeads == 4
MaxInner == 2
MaxTarget == 8
MaxOverlap == 3
MaxText == 7
MaxChars == 6
MaxSplitOverlap == 2

SeqsUpTo(S, n) == UNION { [1..k -> S] : k \in 0..n }

LnHeadA  == <<"#", " ", "A", "\n">>
LnHeadB  == <<"#", "#", " ", "B", "\n">>
LnHeadC  == <<"#", "#", " ", "C", "\n">>
LnHeadD  == <<"#", " ", "D", "\n">>
LnHeadE  == <<"#", "#", "#", " ", "E", "\n">>
LnHeadX  == <<"#", " ", "X", "\n">>
LnText   == <<"a", "b", "\n">>
LnIndent == <<" ", "c", "\n">>
LnBlank  == <<"\n">>
LnFence  == <<"~", "~", "~", "\n">>

\* Markdown of up to MaxLines lines of any kind
SmallDocs ==
    { Join(ls) : ls \in SeqsUpTo({LnHeadA, LnHeadB, LnText, LnIndent, LnBlank,
                                  LnFence}, MaxLines) }

\* up to MaxHeads headings of three depths, each followed by a paragraph
RECURSIVE WithContent(_)
WithContent(hs) ==
    IF hs = <<>> THEN <<>>
    ELSE Head(hs) \o LnText \o WithContent(Tail(hs))

HeadingDocs ==
    { WithContent(hs) : hs \in SeqsUpTo({LnHeadA, LnHeadB, LnHeadC, LnHeadD,
                                         LnHeadE}, MaxHeads) }

\* a fenced region with blank, heading-like and text lines inside, closed or
\* running to the end of the text, with or without text around it
FenceInner == SeqsUpTo({LnBlank, LnHeadX, LnText}, MaxInner)

FenceDocs ==
    { Join(pre) \o LnFence \o Join(inner) \o Join(close) \o Join(post) :
        pre \in {<<>>, <<LnText>>, <<LnHeadA>>},
        inner \in FenceInner,
        close \in {<<>>, <<LnFence>>},
        post \in {<<>>, <<LnText>>, <<LnBlank, LnText>>, <<LnHeadB>>} }

Targets == 1..MaxTarget
Overlaps == 0..MaxOverlap

InitBuild ==
    /\ \E t \in SmallDocs, target \in Targets, ov \in Overlaps :
           BuildStart(t, target, ov)
    /\ SplitIdle
    /\ TidyIdle
    /\ TextIdle
    /\ FigIdle
    /\ ConvertIdle
    /\ MainIdle
    /\ FileIdle

\* the heading documents run on the extreme parameters: every block closes a
\* chunk, or a heading and its paragraph fit into one
InitHeadings ==
    /\ \E t \in HeadingDocs, target \in {1, MaxTarget}, ov \in {0, MaxOverlap} :
           BuildStart(t, target, ov)
    /\ SplitIdle
    /\ TidyIdle
    /\ TextIdle
    /\ FigIdle
    /\ ConvertIdle
    /\ MainIdle
    /\ FileIdle

InitFence ==
    /\ \E t \in FenceDocs, target \in Targets, ov \in Overlaps :
           BuildStart(t, target, ov)
    /\ SplitIdle
    /\ TidyIdle
    /\ TextIdle
    /\ FigIdle
    /\ ConvertIdle
    /\ MainIdle
    /\ FileIdle

\* plain text of up to MaxText characters
SplitTexts == SeqsUpTo({"a", "b", "\n"}, MaxText)

InitSplit ==
    /\ \E t \in SplitTexts, max \in 1..MaxChars, ov \in 0..MaxSplitOverlap :
           SplitStart(t, max, ov)
    /\ BuildIdle
    /\ TidyIdle
    /\ TextIdle
    /\ FigIdle
    /\ ConvertIdle
    /\ MainIdle
    /\ FileIdle

(***************************************************************************)
(* Inputs of the tidy pass                                                 *)
(***************************************************************************)
MaxRecords == 2
MaxPieces == 3
MaxAtoms == 6

TextClean == <<"a", "b">>

TextStray == <<"a", Stray, "b">>

TextArtifact ==
    CommentOpen \o <<" ">> \o WordImage \o <<" ">> \o CommentClose
        \o <<"\n", "a">>

Meta(i) == [doc |-> "d", offset_char |-> 4 * i, chunk_index |-> i]

\* a line that holds a JSON object
Obj(i, kind, t, syn) ==
    [syntax |-> syn, value |-> "object", id |-> i, text_kind |-> kind,
     text |-> t, meta |-> Meta(i)]

\* a line that is no JSON
GarbageLine ==
    [syntax |-> "garbage", value |-> "none", id |-> 0, text_kind |-> "missing",
     text |-> <<>>, meta |-> Meta(0)]

\* a line that is JSON but no object
OtherLine ==
    [syntax |-> "loose", value |-> "other", id |-> 0, text_kind |-> "missing",
     text |-> <<>>, meta |-> Meta(0)]

TidyLines ==
    {GarbageLine, OtherLine, Obj(0, "str", TextClean, "canon")}
    \cup { Obj(i, "str", t, "loose") :
               i \in 0..1, t \in {TextClean, TextStray, TextArtifact} }
    \cup { Obj(i, k, <<>>, "loose") : i \in 0..1, k \in {"missing", "other"} }

TidyFiles == {Absent} \cup { File(ls) : ls \in SeqsUpTo(TidyLines, MaxRecords) }

InitTidy ==
    /\ \E f \in TidyFiles, b \in BOOLEAN : TidyStart(f, b)
    /\ BuildIdle
    /\ SplitIdle
    /\ TextIdle
    /\ FigIdle
    /\ ConvertIdle
    /\ MainIdle
    /\ FileIdle

\* texts put together from up to MaxPieces pieces
Pieces ==
    { <<" ">>, <<"\n">>, <<Stray>>, <<Nbsp>>, <<"x">>, PhraseContinues,
      CommentOpen, WordImage, CommentClose }

CleanTexts == { Join(ps) : ps \in SeqsUpTo(Pieces, MaxPieces) }

\* chunk files of one record
OneRecordFiles(texts) ==
    {Absent, File(<<GarbageLine>>), File(<<OtherLine>>)}
    \cup { File(<<Obj(0, "str", t, "loose")>>) : t \in texts }

InitClean ==
    /\ \E f \in OneRecordFiles(CleanTexts), b \in BOOLEAN : TidyStart(f, b)
    /\ BuildIdle
    /\ SplitIdle
    /\ TextIdle
    /\ FigIdle
    /\ ConvertIdle
    /\ MainIdle
    /\ FileIdle

OrcaMethod ==
    <<" ", "B", "3", "L", "Y", "P">>

OrcaDispersion ==
    <<" ", "D", "3", "B", "J">>

OrcaBasis ==
    <<" ", "d", "e", "f", "2", "-", "S", "V", "P">>

OrcaScf ==
    <<" ", "%", "s", "c", "f", " ", "M", "a", "x", "I", "t", "e", "r", " ",
      "2", "0", "0", " ", "e", "n", "d">>

OrcaPal ==
    <<" ", "%", "p", "a", "l", " ", "n", "p", "r", "o", "c", "s", " ", "4",
      " ", "e", "n", "d">>

OrcaGeom ==
    <<" ", "*", " ", "x", "y", "z", " ", "0", " ", "1">>

OrcaGeomInt ==
    <<" ", "*", " ", "i", "n", "t", " ", "0", " ", "1">>

OrcaAtom ==
    <<" ", "H", " ", "0", ".", "0", " ", "0", ".", "0", " ", "0", ".", "0">>

RECURSIVE Repeat(_, _)
Repeat(s, n) == IF n = 0 THEN <<>> ELSE s \o Repeat(s, n - 1)

\* flattened ORCA inputs: the keyword line, % sections, the geometry marker,
\* the atoms and the closing star, all on one line
OrcaTexts ==
    { <<"!">> \o OrcaMethod \o disp \o OrcaBasis \o OrcaScf \o pal \o geom
          \o Repeat(OrcaAtom, n) \o close :
        disp \in {<<>>, OrcaDispersion},
        pal \in {<<>>, OrcaPal},
        geom \in {OrcaGeom, OrcaGeomInt},
        n \in {0, MaxAtoms},
        close \in {<<>>, <<" ", "*">>} }

InitOrca ==
    /\ \E f \in OneRecordFiles(OrcaTexts), b \in BOOLEAN : TidyStart(f, b)
    /\ BuildIdle
    /\ SplitIdle
    /\ TextIdle
    /\ FigIdle
    /\ ConvertIdle
    /\ MainIdle
    /\ FileIdle

(***************************************************************************)
(* Inputs of the HTML parsers                                              *)
(***************************************************************************)
MaxTextTokens == 4
MaxFigTokens == 5
MaxBreakTokens == 3
MaxFolders == 2
MaxFileChunks == 2
MaxFileFigs == 2
MaxPdfs == 2
MaxSpaceTokens == 6

WordX == <<"x">>

WordAmp == <<"q", "&", "a">>

TextTokens ==
    { StartTag("script"), EndTag("script"), StartTag("style"), EndTag("style"),
      StartTag("p"), EndTag("p"), TextRun(WordX), TextRun(WordAmp) }

InitText ==
    /\ \E toks \in SeqsUpTo(TextTokens, MaxTextTokens) : TextStart(toks)
    /\ BuildIdle
    /\ SplitIdle
    /\ TidyIdle
    /\ FigIdle
    /\ ConvertIdle
    /\ MainIdle
    /\ FileIdle

FigTokens ==
    { StartTag("figure"), EndTag("figure"), StartTag("figcaption"),
      EndTag("figcaption"), Img("a.png"), TextRun(WordX) }

\* nothing, or a figure whose caption is not closed
FigPrefixes ==
    { <<>>,
      <<StartTag("figure"), StartTag("figcaption"), TextRun(<<"c">>),
        EndTag("figure")>> }

InitFigures ==
    /\ \E pre \in FigPrefixes, toks \in SeqsUpTo(FigTokens, MaxFigTokens) :
           FigStart(pre \o toks)
    /\ BuildIdle
    /\ SplitIdle
    /\ TidyIdle
    /\ TextIdle
    /\ ConvertIdle
    /\ MainIdle
    /\ FileIdle

\* texts with block-level tags: a paragraph, a line break, a top-level and a
\* sixth-level heading
BreakTokens ==
    { StartTag("p"), EndTag("p"), StartTag("br"), StartTag("h1"),
      EndTag("h1"), StartTag("h6"), EndTag("h6"),
      TextRun(<<"a">>), TextRun(<<"b">>) }

InitBreaks ==
    /\ \E toks \in SeqsUpTo(BreakTokens, MaxBreakTokens) : TextStart(toks)
    /\ BuildIdle
    /\ SplitIdle
    /\ TidyIdle
    /\ FigIdle
    /\ ConvertIdle
    /\ MainIdle
    /\ FileIdle

\* texts with spaces, tabs and line breaks in and around paragraphs
SpaceTokens ==
    { StartTag("p"), EndTag("p"), TextRun(<<"a">>), TextRun(<<" ">>),
      TextRun(<<"\t">>), TextRun(<<"\n">>) }

InitSpace ==
    /\ \E toks \in SeqsUpTo(SpaceTokens, MaxSpaceTokens) : TextStart(toks)
    /\ BuildIdle
    /\ SplitIdle
    /\ TidyIdle
    /\ FigIdle
    /\ ConvertIdle
    /\ MainIdle
    /\ FileIdle

\* a folder of up to MaxPdfs PDFs, or up to MaxFolders split folders of up
\* to MaxPdfs PDFs each
InitConvert ==
    /\ \/ \E sc \in {RootScript, OptionsScript}, n \in 0..MaxPdfs :
              ConvertStart(sc, <<n>>)
       \/ \E fs \in SeqsUpTo(0..MaxPdfs, MaxFolders) :
              ConvertStart(SplitsScript, fs)
    /\ BuildIdle
    /\ SplitIdle
    /\ TidyIdle
    /\ TextIdle
    /\ FigIdle
    /\ MainIdle
    /\ FileIdle

\* every script, with and without its input, an earlier output file and an
\* earlier backup; a file lies in a folder that exists, and the chunk file
\* of the tidy pass is its input
InitMain ==
    /\ \E pr \in {TidyProgram, PrepareProgram, ConcatProgram, ChunksProgram},
          inp \in {"missing", "blank", "present"},
          dir \in BOOLEAN,
          out \in {"absent", "old"},
          old_bak \in {"absent", "older"} :
           /\ (out # "absent" \/ old_bak # "absent") => dir
           /\ pr = TidyProgram => (out = "old" <=> inp # "missing")
           /\ MainStart(pr, inp, dir, out, old_bak)
    /\ BuildIdle
    /\ SplitIdle
    /\ TidyIdle
    /\ TextIdle
    /\ FigIdle
    /\ ConvertIdle
    /\ FileIdle

\* the figures harvest_figures can return: a src, a caption or both
FileFigs ==
    { [src |-> "a.png", caption |-> <<"c">>],
      [src |-> "a.png", caption |-> <<>>],
      [src |-> "None", caption |-> <<"c">>] }

\* the chunks split_into_chunks can yield
FileChunks == { <<"a">>, <<"a", "\n", "\n", "b">> }

\* build_chunks on every small document while process_file has nothing to
\* write, or process_file on up to MaxFileChunks text chunks and up to
\* MaxFileFigs figures while build_chunks works on a document of three
\* headings
InitIds ==
    /\ \/ /\ \E t \in SmallDocs, target \in Targets, ov \in Overlaps :
                 BuildStart(t, target, ov)
          /\ FileIdle
       \/ /\ BuildStart(WithContent(<<LnHeadA, LnHeadB, LnHeadC>>), 1, 0)
          /\ \E st \in {<<"d">>, <<"d", "_", "f", "i", "g">>},
                root \in {"None", "assets"},
                cs \in SeqsUpTo(FileChunks, MaxFileChunks),
                fs \in SeqsUpTo(FileFigs, MaxFileFigs) :
                 FileStart(st, root, cs, fs)
    /\ SplitIdle
    /\ TidyIdle
    /\ TextIdle
    /\ FigIdle
    /\ ConvertIdle
    /\ MainIdle

SpecBuild == InitBuild /\ [][BuildNext]_vars

SpecHeadings == InitHeadings /\ [][BuildNext]_vars

SpecFence == InitFence /\ [][BuildNext]_vars

SpecSplit == InitSplit /\ [][SplitNext]_vars

SpecTidy == InitTidy /\ [][TidyNext]_vars

SpecClean == InitClean /\ [][TidyNext]_vars

SpecOrca == InitOrca /\ [][TidyNext]_vars

SpecText == InitText /\ [][TextNext]_vars

SpecFigures == InitFigures /\ [][FigNext]_vars

SpecBreaks == InitBreaks /\ [][TextNext]_vars

SpecSpace == InitSpace /\ [][TextNext]_vars

SpecMain == InitMain /\ [][MainNext]_vars

SpecIds == InitIds /\ [][BuildNext \/ FileNext]_vars

\* every step of a converter ends: the loop is a for loop over a list
SpecConvert == InitConvert /\ [][ConvertNext]_vars /\ WF_vars(ConvertNext)

(***************************************************************************)
(* Properties of build_chunks                                              *)
(***************************************************************************)

\* the last n characters of s, for 0 <= n <= Len(s)
LastChars(s, n) == SubSeq(s, Len(s) - n + 1, Len(s))

Min(a, b) == IF a < b THEN a ELSE b

\* the block indices that went into chunk k
Members(k) == { hist[k].members[j] : j \in 1..Len(hist[k].members) }

\* the text carried out of chunk k when it was closed by overflow: the
\* carry-in of the chunk that followed it
CarriedOut(k) ==
    IF k < Len(hist) THEN hist[k + 1].carry_in ELSE open.carry_in

\* C1: every chunk after the first has a text that begins with the last
\* min(overlap_chars, len(previous text)) characters of the previous chunk's
\* emitted text, however the previous chunk was closed.
C1_OverlapPrefix ==
    \A k \in 2..Len(chunks) :
        StartsWith(chunks[k].text,
                   LastChars(chunks[k - 1].text,
                             Min(overlap_chars, Len(chunks[k - 1].text))))

\* C2: whenever a chunk is closed because the next block would overflow the
\* budget, the text carried into the next chunk is a suffix of the closed
\* chunk's text (taken before stripping, as the code takes it) and is no
\* longer than the configured overlap; with overlap 0 nothing is carried.
C2_CarryWithinOverlap ==
    \A k \in 1..Len(hist) :
        hist[k].closed_by = "overflow" =>
            /\ EndsWith(hist[k].raw, CarriedOut(k))
            /\ Len(CarriedOut(k)) <= overlap_chars

\* C3: a chunk is longer than target_chars only if one of its blocks is by
\* itself longer than target_chars.
C3_WithinTarget ==
    \A k \in 1..Len(chunks) :
        Len(chunks[k].text) > target_chars =>
            \E b \in Members(k) : Len(blocks[b].text) > target_chars

\* the full text of block b is in chunk k: as one of its blocks, or inside
\* the text carried into it
AppearsWhole(b, k) ==
    /\ Occurs(Strip(blocks[b].text), chunks[k].text)
    /\ \/ b \in Members(k)
       \/ Occurs(Strip(blocks[b].text), hist[k].carry_in)

\* C4: a block longer than target_chars appears whole in exactly one of the
\* returned chunks, for every overlap_chars >= 0.
C4_OversizedOnce ==
    pc = "done" =>
        \A b \in 1..Len(blocks) :
            Len(blocks[b].text) > target_chars =>
                Cardinality({ k \in 1..Len(chunks) : AppearsWhole(b, k) }) = 1

\* C5: every emitted chunk records the titles of the heading stack that was
\* in effect when its last block was added; a chunk closed by an arriving
\* heading carries the path of the section its content belongs to.
C5_PathOfContent ==
    \A k \in 1..Len(chunks) :
        chunks[k].section_path = hist[k].path_at_last

\* the document "# A", "## B", "## C", "# D", each followed by a paragraph
DocABCD == WithContent(<<LnHeadA, LnHeadB, LnHeadC, LnHeadD>>)

HeadingsUpTo(n) ==
    LET hs == { j \in 1..n : HeadingMatches(Strip(blocks[j].text)) }
    IN  [j \in hs |-> [level |-> HeadingLevel(Strip(blocks[j].text)),
                       title |-> HeadingTitle(Strip(blocks[j].text))]]

\* C7: a heading of depth d removes every stack entry of depth >= d (and no
\* other) and is then pushed: the stack holds exactly the headings that no
\* later heading of the same or a smaller depth has followed, depths
\* strictly increasing from bottom to top, the most recent heading on top.
C7_StackRule ==
    LET heads     == HeadingsUpTo(bi)
        hs        == DOMAIN heads
        survivors == { j \in hs :
                         \A j2 \in hs : j2 > j => heads[j2].level > heads[j].level }
    IN  /\ \A k \in 1..(Len(section_stack) - 1) :
               section_stack[k].level < section_stack[k + 1].level
        /\ Len(section_stack) = Cardinality(survivors)
        /\ \A j \in survivors :
               \E k \in 1..Len(section_stack) : section_stack[k] = heads[j]
        /\ hs # {} =>
               section_stack[Len(section_stack)] =
                   heads[CHOOSE x \in hs : \A y \in hs : y <= x]
        /\ hs = {} => section_stack = <<>>

\* C7 witness: a depth-1 heading has just popped a stack of three entries
C7_Witness ==
    /\ bi >= 7
    /\ HeadingLevel(Strip(blocks[bi - 6].text)) = 1
    /\ HeadingLevel(Strip(blocks[bi - 4].text)) = 2
    /\ HeadingLevel(Strip(blocks[bi - 2].text)) = 3
    /\ HeadingMatches(Strip(blocks[bi].text))
    /\ HeadingLevel(Strip(blocks[bi].text)) = 1
    /\ Len(section_stack) = 1

MdLines == SplitLines(md_text)

\* the first fenced region of a text: from its first fence line to the next
\* one, or to the end of the text
FirstFence(ls) ==
    CHOOSE i \in 1..Len(ls) :
        IsFenceLine(ls[i]) /\ \A j \in 1..(i - 1) : ~IsFenceLine(ls[j])

NextFence(ls, i) ==
    IF \E j \in (i + 1)..Len(ls) : IsFenceLine(ls[j])
    THEN CHOOSE j \in (i + 1)..Len(ls) :
             IsFenceLine(ls[j]) /\ \A j2 \in (i + 1)..(j - 1) : ~IsFenceLine(ls[j2])
    ELSE Len(ls)

\* C8: a fenced region is atomic: iter_blocks yields it, blank and
\* heading-like lines included, as exactly one block; no line inside it is
\* taken for a heading; build_chunks puts that block whole into one chunk.
C8_FenceAtomic ==
    LET ls     == MdLines
        first  == FirstFence(ls)
        close  == NextFence(ls, first)
        region == Join(SubSeq(ls, first, close))
        start  == Len(Join(SubSeq(ls, 1, first - 1)))
        \* the blocks that hold a character of the region
        held   == { b \in 1..Len(blocks) :
                      /\ blocks[b].start < start + Len(region)
                      /\ blocks[b].start + Len(blocks[b].text) > start }
    IN  (\E i \in 1..Len(ls) : IsFenceLine(ls[i])) =>
            /\ Cardinality(held) = 1
            /\ \A b \in held :
                   /\ blocks[b].text = region
                   /\ blocks[b].start = start
                   /\ ~HeadingMatches(Strip(blocks[b].text))
                   /\ \A k \in 1..Len(chunks) :
                          b \in Members(k) =>
                              Occurs(Strip(region), chunks[k].text)
                   /\ pc = "done" =>
                          Cardinality({ k \in 1..Len(chunks) :
                                          b \in Members(k) }) = 1
            /\ \A k \in 1..Len(section_stack) :
                   section_stack[k].title # <<"X">>
            /\ \A k \in 1..Len(chunks) :
                   \A j \in 1..Len(chunks[k].section_path) :
                       chunks[k].section_path[j] # <<"X">>

\* C8 witness: a region with a blank and a heading-like line inside, between
\* two paragraphs, chunked into several chunks
C8_Witness ==
    /\ md_text = Join(<<LnText, LnFence, LnBlank, LnHeadX, LnFence, LnText>>)
    /\ pc = "done"
    /\ Len(chunks) >= 2
    /\ \E k \in 1..Len(chunks) :
           Occurs(Strip(Join(<<LnFence, LnBlank, LnHeadX, LnFence>>)),
                  chunks[k].text)

NonBlank(ls) == SelectSeq(ls, LAMBDA l : Strip(l) # <<>>)

\* a line without its line terminator
WithoutNewline(l) ==
    IF l # <<>> /\ l[Len(l)] = "\n" THEN SubSeq(l, 1, Len(l) - 1) ELSE l

\* C9 (as claimed): every non-blank line of the Markdown appears, as it is,
\* in the text of at least one returned chunk.
C9_LinesVerbatim ==
    pc = "done" =>
        LET ls == MdLines
        IN  \A i \in 1..Len(ls) :
                Strip(ls[i]) # <<>> =>
                    \E k \in 1..Len(chunks) :
                        Occurs(WithoutNewline(ls[i]), chunks[k].text)

\* C9 (as amended): every non-blank line of the Markdown, stripped of its
\* leading and trailing whitespace, appears in the text of a chunk; the
\* blocks hold the non-blank lines in the original order and go into the
\* chunks in that order, each into one chunk; what a chunk's text holds
\* besides its blocks is the overlap text carried from the chunk before it.
C9_LinesPreserved ==
    pc = "done" =>
        /\ LET ls == MdLines
           IN  /\ \A i \in 1..Len(ls) :
                      Strip(ls[i]) # <<>> =>
                          \E k \in 1..Len(chunks) :
                              Occurs(Strip(ls[i]), chunks[k].text)
               /\ NonBlank(SplitLines(Join([b \in 1..Len(blocks) |->
                                                blocks[b].text])))
                      = NonBlank(ls)
        /\ Join([k \in 1..Len(hist) |-> hist[k].members])
               = [b \in 1..Len(blocks) |-> b]
        /\ Len(hist) = Len(chunks)
        /\ \A k \in 1..Len(chunks) :
               /\ chunks[k].text =
                      Strip(hist[k].carry_in \o
                            Join([j \in 1..Len(hist[k].members) |->
                                      blocks[hist[k].members[j]].text]))
               /\ hist[k].carry_in # <<>> =>
                      /\ k > 1
                      /\ EndsWith(hist[k - 1].raw, hist[k].carry_in)

\* C9 witness: a text with an indented line and a blank line was cut into
\* several chunks, one of them starting with carried overlap text
C9_Witness ==
    /\ pc = "done"
    /\ Len(chunks) >= 2
    /\ overlap_chars >= 1
    /\ Occurs(LnIndent, md_text)
    /\ Occurs(<<"\n", "\n">>, md_text)
    /\ \E k \in 1..Len(hist) : hist[k].carry_in # <<>>

(***************************************************************************)
(* Properties of split_into_chunks                                         *)
(***************************************************************************)

\* C10: split_into_chunks appends the next paragraph as long as the buffer
\* text joined with it does not exceed max_chars and flushes exactly when it
\* would; after a flush the buffer is the trailing overlap characters of the
\* flushed text followed by the paragraph.
C10_Greedy ==
    (last.kind \in {"append", "flush"} /\ last.before # <<>>) =>
        LET flushed == JoinParas(last.before)
            joined  == JoinParas(Append(last.before, last.para))
        IN  /\ last.kind = "append" <=> Len(joined) <= max_chars
            /\ last.kind = "flush" =>
                   buf = <<LastChars(flushed, Min(overlap, Len(flushed))),
                           last.para>>

\* nondecreasing maps from the first n paragraphs to the first m chunks
Placements(n, m) ==
    { f \in [1..n -> 1..m] : \A i, j \in 1..n : i <= j => f[i] <= f[j] }

\* C11: split_into_chunks never drops a paragraph: every non-empty paragraph
\* the loop has consumed is an element of the buffer or appears whole in a
\* yielded chunk; when the generator ends every paragraph appears whole in a
\* yielded chunk, the chunks following the order of the paragraphs; and a
\* first paragraph longer than max_chars, which arrives at an empty buffer,
\* is yielded as a chunk of its own.
C11_NoParagraphDropped ==
    /\ \A j \in 1..pi :
           \/ \E b \in 1..Len(buf) : Occurs(paras[j], buf[b])
           \/ \E k \in 1..Len(yielded) : Occurs(paras[j], yielded[k])
    /\ spc = "done" =>
           /\ paras # <<>> => yielded # <<>>
           /\ \E f \in Placements(Len(paras), Len(yielded)) :
                  \A j \in 1..Len(paras) : Occurs(paras[j], yielded[f[j]])
           /\ (paras # <<>> /\ Len(paras[1]) > max_chars) =>
                  yielded[1] = paras[1]

\* C11 witness: a first paragraph longer than max_chars was followed by
\* another one, and the generator ended after a flush
C11_Witness ==
    /\ spc = "done"
    /\ Len(paras) >= 2
    /\ Len(paras[1]) > max_chars
    /\ overlap >= 1
    /\ Len(yielded) >= 2
    /\ yielded[1] = paras[1]

(***************************************************************************)
(* Properties of the tidy pass                                             *)
(***************************************************************************)

\* the file process_chunks writes for the chunk file of this run
CleanedFile == File(CleanedLines(original.lines))

\* the chunk path never holds a half-written file, and the temp file takes
\* the place of the chunk file only when every line has been read
NoHalfWrittenTarget ==
    /\ chunks_path \in {Absent, original, CleanedFile}
    /\ tpc = "done" =>
           /\ total = Len(original.lines)
           /\ chunks_path = CleanedFile

\* the original content is at the chunk path or at the backup name
OriginalRecoverable == chunks_path = original \/ bak = original

\* C12 (as claimed): with or without backup, at every step and after a crash
\* at any step the chunk path holds a complete file or nothing, the temp file
\* replaces the chunk file only after every record has been written, and the
\* complete original content is at the chunk path or in the backup.
C12_NeverHalfWritten ==
    /\ NoHalfWrittenTarget
    /\ OriginalRecoverable

\* C12 (as amended): at every step and after a crash at any step the chunk
\* path holds a complete file or nothing, and the temp file replaces the chunk
\* file only after every record has been written; with backup the original
\* content is at the chunk path or in the backup at every step; without
\* backup it stays at the chunk path until the replacement and is in no file
\* afterwards.
C12_SafeReplace ==
    /\ NoHalfWrittenTarget
    /\ backup => OriginalRecoverable
    /\ (~backup /\ tpc # "done") => chunks_path = original
    /\ (~backup /\ tpc = "done") => bak # original \/ ~original.exists

\* C12 witness: the process was killed in the loop of a run with backup,
\* after it had written a record and before it had read every line
C12_Witness ==
    /\ tpc = "crashed"
    /\ backup
    /\ tmp_out.exists
    /\ tmp_out.lines # <<>>
    /\ total < Len(original.lines)
    /\ ~chunks_path.exists
    /\ bak = original

\* the lines of the chunk file of this run that json.loads accepts
Parseable == SelectSeq(original.lines, LAMBDA l : ~LoadsFails(l))

\* the text rec.get("text", "") gives for a line
TextOf(l) == IF l.text_kind = "missing" THEN <<>> ELSE l.text

\* C13: every record the tidy pass has written has the id and the meta of
\* the input record it was made from, and a record whose cleaned text equals
\* its text is written with every field as it was.
C13_OnlyTextChanges ==
    tmp_out.exists =>
        \A k \in 1..Len(tmp_out.lines) :
            LET inp == Parseable[k]
                out == tmp_out.lines[k]
            IN  /\ out.id = inp.id
                /\ out.meta = inp.meta
                /\ out.value = inp.value
                /\ clean_text(TextOf(inp)) = TextOf(inp) =>
                       /\ out.text = inp.text
                       /\ out.text_kind = inp.text_kind

\* C13 witness: two records were written, the first with a changed text and
\* an id that is not its position, the second as it was
C13_Witness ==
    /\ tpc = "loop"
    /\ Len(tmp_out.lines) = 2
    /\ changed = 1
    /\ tmp_out.lines[1].id = 1
    /\ tmp_out.lines[1].text # original.lines[1].text
    /\ tmp_out.lines[2].text = original.lines[2].text

\* C14: running the tidy pass once more on a chunk file leaves every text as
\* the run before left it: clean_text(clean_text(t)) = clean_text(t).
C14_Idempotent ==
    (tpc = "done" /\ runs >= 2) =>
        /\ Len(results[runs].lines) = Len(results[runs - 1].lines)
        /\ \A k \in 1..Len(results[runs].lines) :
               results[runs].lines[k].text = results[runs - 1].lines[k].text

\* C15: no text the tidy pass has written holds a line that matches an
\* artifact marker, and none holds a stray symbol.
C15_NoArtifactsLeft ==
    tmp_out.exists =>
        \A k \in 1..Len(tmp_out.lines) :
            LET out == TextOf(tmp_out.lines[k])
            IN  /\ \A ln \in 1..Len(PlainLines(out)) :
                       ~IsArtifactLine(PlainLines(out)[ln])
                /\ \A i \in 1..Len(out) : out[i] \notin StraySymbols

\* C16: a one-line ORCA input that starts with "!", holds a % section and
\* the geometry marker and is longer than 120 characters is detected by
\* looks_like_orca_flat and written as several lines, each line after the
\* first starting at a marker of ORCA_BREAK_REGEX.
C16_OrcaReformatted ==
    (tmp_out.exists /\ tmp_out.lines # <<>>) =>
        LET t   == Parseable[1].text
            out == PlainLines(tmp_out.lines[1].text)
        IN  (/\ Len(t) > OrcaFlatMinLen
             /\ \E i \in 1..Len(t) : ExactAt(t, i, GeomMarker)) =>
                /\ looks_like_orca_flat(t)
                /\ Len(out) > 1
                /\ \A ln \in 2..Len(out) : MarkerEnd(out[ln], 1) > 0

\* C17: a line that json.loads rejects is skipped, every other line gives
\* one record, and the rewrite is not aborted: when the pass ends, the chunk
\* file holds one record for every parseable line, in the order of the lines.
C17_ParseableAllWritten ==
    /\ tpc # "raised"
    /\ tpc = "done" =>
           /\ Len(chunks_path.lines) = Len(Parseable)
           /\ \A k \in 1..Len(Parseable) :
                  chunks_path.lines[k].id = Parseable[k].id

(***************************************************************************)
(* Properties of harvest_figures and html_to_text                          *)
(***************************************************************************)

\* the figure start tags less the figure end tags among the tokens i..j
FigureDepth(toks, i, j) ==
    Cardinality({ k \in i..j : toks[k] = StartTag("figure") })
        - Cardinality({ k \in i..j : toks[k] = EndTag("figure") })

\* every figure start tag has its end tag, and every end tag its start tag
FiguresBalanced(toks) ==
    /\ \A j \in 1..Len(toks) : FigureDepth(toks, 1, j) >= 0
    /\ FigureDepth(toks, 1, Len(toks)) = 0

\* the end tag of the figure element whose start tag is token i
FigureEnd(toks, i) ==
    CHOOSE j \in (i + 1)..Len(toks) :
        /\ toks[j] = EndTag("figure")
        /\ FigureDepth(toks, i + 1, j - 1) = 0
        /\ \A m \in (i + 1)..(j - 1) :
               ~(toks[m] = EndTag("figure") /\ FigureDepth(toks, i + 1, m - 1) = 0)

\* token k lies in the figure element whose start tag is token i and that
\* ends at token e, and in no figure element inside it
OwnToken(toks, i, e, k) ==
    /\ i < k
    /\ k < e
    /\ FigureDepth(toks, i + 1, k) = 0

\* token k lies in a figcaption element that was opened after token i
InCaptionSince(toks, i, k) ==
    \E q \in (i + 1)..(k - 1) :
        /\ toks[q] = StartTag("figcaption")
        /\ \A r \in (q + 1)..(k - 1) : toks[r] # EndTag("figcaption")

\* the tokens of the figure element from i to e that give it a source
OwnImages(toks, i, e) ==
    { k \in 1..Len(toks) :
        /\ OwnToken(toks, i, e, k)
        /\ toks[k].kind = "start"
        /\ toks[k].tag = "img"
        /\ toks[k].src # "None" }

\* the src of the figure element from i to e: that of its last image
OwnSrc(toks, i, e) ==
    LET imgs == OwnImages(toks, i, e)
    IN  IF imgs = {} THEN "None"
        ELSE toks[CHOOSE k \in imgs : \A m \in imgs : m <= k].src

\* the caption of the figure element from i to e: the text in its figcaption
OwnCaption(toks, i, e) ==
    Strip(Join(Emit([k \in 1..Len(toks) |->
                       [c |-> toks[k].chars,
                        keep |-> /\ OwnToken(toks, i, e, k)
                                 /\ toks[k].kind \in {"text", "data"}
                                 /\ InCaptionSince(toks, i, k)]])))

\* C18: harvest_figures returns one record for every figure element of the
\* text that holds an image source or caption text of its own, also when
\* figure elements follow one another or lie in one another.
C18_OneRecordPerFigure ==
    (fpc = "done" /\ FiguresBalanced(fig_html)) =>
        Len(figures) =
            Cardinality({ i \in 1..Len(fig_html) :
                            /\ fig_html[i] = StartTag("figure")
                            /\ LET e == FigureEnd(fig_html, i)
                               IN  \/ OwnSrc(fig_html, i, e) \notin {"None", ""}
                                   \/ OwnCaption(fig_html, i, e) # <<>> })

\* the calls of handle_endtag("figure") made so far, in order
FigureEndCalls ==
    SelectSeq([k \in 1..fig_pos |-> k],
              LAMBDA k : fig_events[k] = EndTag("figure"))

\* the start tag of the figure element that the end tag of call e closes
\* (0 when no figure element is open)
FigureStartOf(e) ==
    LET opens == { i \in 1..(e - 1) :
                     /\ fig_events[i] = StartTag("figure")
                     /\ FigureDepth(fig_events, i + 1, e - 1) = 0 }
    IN  IF opens = {} THEN 0
        ELSE CHOOSE i \in opens : \A m \in opens : m <= i

\* C19: every record of the harvester carries the src of the image inside
\* its figure element and, as caption, exactly the text inside a figcaption
\* of that figure element: no text from outside a figcaption and nothing
\* left over from an earlier figure.
C19_RecordOfItsFigure ==
    \A n \in 1..Len(items) :
        LET e == FigureEndCalls[n]
            i == FigureStartOf(e)
        IN  i > 0 =>
                /\ items[n].src = OwnSrc(fig_events, i, e)
                /\ items[n].caption = OwnCaption(fig_events, i, e)

\* the script or style element that is open after token k ("" when none is)
RECURSIVE OpenRegion(_, _)
OpenRegion(toks, k) ==
    IF k = 0 THEN ""
    ELSE LET before == OpenRegion(toks, k - 1)
         IN  IF before = ""
             THEN IF toks[k].kind = "start" /\ toks[k].tag \in CdataElements
                  THEN toks[k].tag ELSE ""
             ELSE IF toks[k] = EndTag(before) THEN "" ELSE before

\* a text token outside every script and style element holds the word
OutsideText(toks, word) ==
    \E k \in 1..Len(toks) :
        /\ toks[k].kind = "text"
        /\ OpenRegion(toks, k) = ""
        /\ Occurs(word, toks[k].chars)

\* C20: html_to_text leaves out exactly the content of script and style
\* elements: a word is in the result if and only if it is in a text outside
\* every script and style element.
C20_ExactlyScriptStyle ==
    xpc = "done" =>
        \A word \in {WordX, WordAmp} :
            Occurs(word, text_out) <=> OutsideText(html, word)

\* the tags at which a block-level element starts or ends
BlockLevel ==
    {"p", "br", "li", "tr", "h1", "h2", "h3", "h4", "h5", "h6"}

\* the text tokens i and j have nothing but tags between them, one of them
\* the start or the end of a block-level element, and their texts occur
\* nowhere else in the input
SeparatedByBlock(toks, i, j) ==
    /\ i < j
    /\ toks[i].kind = "text"
    /\ toks[j].kind = "text"
    /\ \A k \in (i + 1)..(j - 1) : toks[k].kind # "text"
    /\ \E k \in (i + 1)..(j - 1) : toks[k].tag \in BlockLevel
    /\ \A k \in 1..Len(toks) :
           (k \notin {i, j} /\ toks[k].kind = "text")
               => toks[k].chars \notin {toks[i].chars, toks[j].chars}

\* C21: in the text html_to_text returns, the text before and the text
\* after the start or end tag of a block-level element (p, br, li, tr, h1
\* to h6) are never run together on one line.
C21_BlockBoundariesBreak ==
    xpc = "done" =>
        \A i, j \in 1..Len(html) :
            SeparatedByBlock(html, i, j)
                => ~Occurs(html[i].chars \o html[j].chars, text_out)

\* C22: the text html_to_text returns holds no two consecutive spaces or
\* tabs and no two consecutive blank lines, a blank line being one that is
\* empty or holds only whitespace.
C22_WhitespaceCollapsed ==
    xpc = "done" =>
        /\ \A k \in 1..(Len(text_out) - 1) :
               ~(text_out[k] \in {" ", "\t"} /\ text_out[k + 1] \in {" ", "\t"})
        /\ LET ls == PlainLines(text_out)
           IN  \A k \in 1..(Len(ls) - 1) :
                   ~(IsBlankLine(ls[k]) /\ IsBlankLine(ls[k + 1]))

(***************************************************************************)
(* Properties of the batch converters                                      *)
(***************************************************************************)
\* the items of the folders f..Len(fs), in the order of the loops
RECURSIVE WorklistFrom(_, _)
WorklistFrom(fs, f) ==
    IF f > Len(fs) THEN <<>>
    ELSE [p \in 1..fs[f] |-> <<f, p>>] \o WorklistFrom(fs, f + 1)

Worklist == WorklistFrom(folders, 1)

\* the attempts that ended well, and those that ended with an Exception
Converted == SelectSeq(attempted, LAMBDA a : a.result = "ok")

Failed == SelectSeq(attempted, LAMBDA a : a.result = "failed")

\* what C23 says of every state of a batch converter
BatchCounts ==
    /\ Len(attempted) <= Len(Worklist)
    /\ \A k \in 1..Len(attempted) : attempted[k].item = Worklist[k]
    /\ ok = Len(Converted)
    /\ 0 <= ok
    /\ ok <= Len(attempted)
    /\ errors = [k \in 1..Len(Failed) |-> Failed[k].item]
    /\ cvpc = "done" => Len(attempted) = Len(Worklist)
    /\ summary # <<>> =>
           /\ cvpc = "done"
           /\ summary[1] = Len(Converted)
           /\ summary[2] = Len(attempted)
           /\ 0 <= summary[1]
           /\ summary[1] <= summary[2]

\* C23: in every batch converter an Exception raised while one PDF is
\* converted is caught and logged with the item, and the loop goes on: the
\* PDFs of the worklist are attempted once each, in order, whatever
\* happened to the earlier ones; the final summary reports ok/total with ok
\* the number of items converted without an exception and total the number
\* of items attempted, so 0 <= ok <= total; and the run ends after the last
\* item.
C23_BatchContinues == []BatchCounts /\ <>(cvpc = "done")

\* a run has ended with its summary after an item failed and a later item
\* was converted
C23_Witness ==
    /\ cvpc = "done"
    /\ summary # <<>>
    /\ \E k, m \in 1..Len(attempted) :
           /\ k < m
           /\ attempted[k].result = "failed"
           /\ attempted[m].result = "ok"

(***************************************************************************)
(* Properties of the entry points                                          *)
(***************************************************************************)
\* C24: when the input of tidy_chunks_inplace, prepare_llamaindex_dataset,
\* concat_md or make_chunks_from_docs does not exist, the script does not
\* run to its end, and it leaves the output file and the backup as they
\* were: nothing is created, renamed, truncated or overwritten.
C24_MissingInputFatal ==
    (program # "None" /\ input = "missing") =>
        /\ mnpc # "done"
        /\ <<out_file, bak_file>> = at_start

(***************************************************************************)
(* Properties of the identifiers                                           *)
(***************************************************************************)
\* the number a record's id ends with
IdNumber(rec) ==
    LET id == rec.id
    IN  SubSeq(id, Len(id) - 4, Len(id))

\* C25: the chunks build_chunks returns carry the chunk_index values 0, 1,
\* ..., n-1 in list order, the id "orca_" followed by the zero-padded index,
\* and offsets that never decrease; process_file numbers the records of one
\* file consecutively from 0, the text chunks first and the figure records
\* after them, and no two records of the file share an id.
C25_SequenceNumbers ==
    /\ \A k \in 1..Len(chunks) :
           /\ chunks[k].chunk_index = k - 1
           /\ chunks[k].id = <<"o", "r", "c", "a", "_">> \o Pad5(k - 1)
           /\ k > 1 => chunks[k - 1].offset_char <= chunks[k].offset_char
    /\ \A k \in 1..Len(fout) :
           /\ IdNumber(fout[k]) = Pad5(k - 1)
           /\ StartsWith(fout[k].id, stem \o <<"_">>)
           /\ fout[k].type = "figure" <=> k > Len(text_chunks)
           /\ \A j \in 1..(k - 1) : fout[j].id # fout[k].id
    /\ pfpc = "done" => Len(fout) = Len(text_chunks) + Len(figs)

\* both programs have returned: build_chunks three chunks, process_file two
\* text records and a figure record after them
C25_Witness ==
    /\ pc = "done"
    /\ Len(chunks) >= 3
    /\ pfpc = "done"
    /\ Len(text_chunks) = 2
    /\ Len(fout) >= 3
    /\ fout[3].type = "figure"

\* the first line of a text, without its line break
FirstLine(t) == SubSeq(t, 1, LineEnd(t, 1))

\* the source from the character offset off on (off characters left out)
SourceFrom(off) == SubSeq(md_text, off + 1, Len(md_text))

\* C26: the offset_char of every chunk of build_chunks lies within the
\* source, and the source from that offset on begins, after whitespace at
\* most, with the first line of the chunk's text; this holds for the chunks
\* that start with carried overlap text as well.
C26_OffsetOfContent ==
    \A k \in 1..Len(chunks) :
        /\ 0 <= chunks[k].offset_char
        /\ chunks[k].offset_char <= Len(md_text)
        /\ StartsWith(LStrip(SourceFrom(chunks[k].offset_char)),
                      FirstLine(chunks[k].text))

\* C27: when process_chunks has ended, by its return or by an exception
\* raised in the loop, with or without backup, the chunk path holds a
\* complete file: the cleaned file after the return, the original as it was
\* after the exception.
C27_CompleteFileAtPath ==
    /\ tpc \in {"done", "raised"} => chunks_path.exists
    /\ tpc = "done" => chunks_path = CleanedFile
    /\ tpc = "raised" => chunks_path = original

=============================================================================
